---- MODULE Spec2Model ----
(***************************************************************************)
(* A model of marq's structural markdown diff (src/src/diff.rs) and of the *)
(* document tree it works on (src/src/ast.rs).                             *)
(*                                                                         *)
(* Three state machines share the module:                                  *)
(*   SpecAlign   diff_sequences, run one loop iteration at a time over two *)
(*               integer sequences;                                        *)
(*   Spec        diff_markdown and diff_markdown_inline, run one aligner   *)
(*               op at a time over two parsed block sequences;             *)
(*   SpecInline  diff_inlines, run one word op at a time over two inline   *)
(*               sequences.                                                *)
(* Each machine leaves the variables of the other two at their idle value; *)
(* SpecAll is the three together, a run being a run of any one of them.    *)
(* Strings are sequences of one-character strings, so that flattening,     *)
(* whitespace splitting and joining are computed, not assumed.             *)
(***************************************************************************)
EXTENDS Integers, Sequences, FiniteSets, TLC

VARIABLES
    \* diff_sequences (src/src/diff.rs:11-46)
    old, new, table, i, j, ops, phase,
    \* diff_markdown / diff_markdown_inline (src/src/diff.rs:50-125)
    mode, old_blocks, new_blocks, diff_ops, pos, result_blocks,
    pending_removes, last, pc,
    \* diff_inlines (src/src/diff.rs:223-277)
    old_inlines, new_inlines, word_ops, wpos, result, removed_run, added_run, ipc,
    \* CompareHandler::parse_sections (src/src/handlers.rs:420-455)
    input_code, code_lines, lpos, sections, current_language, current_code, spc

alignVars == <<old, new, table, i, j, ops, phase>>
diffVars == <<mode, old_blocks, new_blocks, diff_ops, pos, result_blocks,
              pending_removes, last, pc>>
inlineVars == <<old_inlines, new_inlines, word_ops, wpos, result, removed_run,
                added_run, ipc>>
sectionVars == <<input_code, code_lines, lpos, sections, current_language,
                 current_code, spc>>
vars == <<old, new, table, i, j, ops, phase, mode, old_blocks, new_blocks,
          diff_ops, pos, result_blocks, pending_removes, last, pc, old_inlines,
          new_inlines, word_ops, wpos, result, removed_run, added_run, ipc,
          input_code, code_lines, lpos, sections, current_language,
          current_code, spc>>

\* What each machine leaves alone.
notAlign == <<diffVars, inlineVars, sectionVars>>
notDiff == <<alignVars, inlineVars, sectionVars>>
notInline == <<alignVars, diffVars, sectionVars>>
notSections == <<alignVars, diffVars, inlineVars>>

----------------------------------------------------------------------------
(* Bounds of the model *)

\* longest integer sequence handed to diff_sequences
MaxLen == 3
\* the integer sequences are drawn from 1..MaxVal
MaxVal == 2
\* most blocks in the old document
MaxOld == 3
\* most blocks in the new document
MaxNew == 2
\* most inline nodes on either side of diff_inlines
MaxInl == 2
\* most lines in the content handed to parse_sections
MaxLines == 3

----------------------------------------------------------------------------
(* Generic helpers *)

SeqsUpTo(S, n) == UNION {[1..k -> S] : k \in 0..n}

Reverse(s) == [k \in 1..Len(s) |-> s[Len(s) + 1 - k]]

Max(a, b) == IF a >= b THEN a ELSE b

RECURSIVE Flatten(_)
Flatten(ss) == IF ss = <<>> THEN <<>> ELSE Head(ss) \o Flatten(Tail(ss))

----------------------------------------------------------------------------
(* DiffOp<T> and diff_sequences *)

Equal(x) == [op |-> "Equal", val |-> x]
Remove(x) == [op |-> "Remove", val |-> x]
Add(x) == [op |-> "Add", val |-> x]

\* One cell of the LCS table: up = table[i-1][j], left = table[i][j-1],
\* diag = table[i-1][j-1]; a and b are old[i-1] and new[j-1].
LcsCellNoDiag(a, b, up, left, diag) == Max(up, left)
LcsCell(a, b, up, left, diag) == IF a = b THEN diag + 1 ELSE Max(up, left)

\* Row i of the table (columns 0..n), from row i-1; row holds columns 0..Len(row)-1.
RECURSIVE FillRow(_, _, _, _, _)
FillRow(o, n, prev, ii, row) ==
    IF Len(row) = Len(n) + 1 THEN row
    ELSE LET jj == Len(row)
         IN FillRow(o, n, prev, ii,
                Append(row, LcsCell(o[ii], n[jj], prev[jj + 1], row[jj], prev[jj])))

RECURSIVE FillTable(_, _, _)
FillTable(o, n, rows) ==
    IF Len(rows) = Len(o) + 1 THEN rows
    ELSE LET ii == Len(rows)
         IN FillTable(o, n, Append(rows, FillRow(o, n, rows[ii], ii, <<0>>)))

\* vec![vec![0u32; n + 1]; m + 1], then the two nested loops
BuildLcsTable(o, n) == FillTable(o, n, << [c \in 1..(Len(n) + 1) |-> 0] >>)

\* table[i][j] with the code's 0-based indices
At(t, ii, jj) == t[ii + 1][jj + 1]

\* The tie-break of the backtrack: on a tie the Add branch is taken.
TieBreakInverted(left, up) == left < up
TieBreakStrict(left, up) == left > up
TieBreak(left, up) == left >= up

\* Which branch one iteration of the backtrack loop takes at (i, j).
BacktrackBranchAddFirst(o, n, t, ii, jj) ==
    IF jj > 0 /\ (ii = 0 \/ TieBreak(At(t, ii, jj - 1), At(t, ii - 1, jj))) THEN "Add"
    ELSE IF ii > 0 /\ jj > 0 /\ o[ii] = n[jj] THEN "Equal"
    ELSE "Remove"
BacktrackBranchNoZeroCase(o, n, t, ii, jj) ==
    IF ii > 0 /\ jj > 0 /\ o[ii] = n[jj] THEN "Equal"
    ELSE IF jj > 0 /\ ii > 0 /\ TieBreak(At(t, ii, jj - 1), At(t, ii - 1, jj))
         THEN "Add"
         ELSE "Remove"
BacktrackBranch(o, n, t, ii, jj) ==
    IF ii > 0 /\ jj > 0 /\ o[ii] = n[jj] THEN "Equal"
    ELSE IF jj > 0 /\ (ii = 0 \/ TieBreak(At(t, ii, jj - 1), At(t, ii - 1, jj)))
         THEN "Add"
         ELSE "Remove"

\* The op one iteration pushes.
PushedOpMislabelled(o, n, branch, ii, jj) ==
    CASE branch = "Equal" -> Equal(o[ii])
      [] branch = "Add" -> Remove(n[jj])
      [] OTHER -> Remove(o[ii])
PushedOp(o, n, branch, ii, jj) ==
    CASE branch = "Equal" -> Equal(o[ii])
      [] branch = "Add" -> Add(n[jj])
      [] OTHER -> Remove(o[ii])

\* The whole backtrack loop from (ii, jj), ops in push order.
RECURSIVE Backtrack(_, _, _, _, _, _)
Backtrack(o, n, t, ii, jj, acc) ==
    IF ~(ii > 0 \/ jj > 0) THEN acc
    ELSE LET b == BacktrackBranch(o, n, t, ii, jj)
         IN Backtrack(o, n, t,
                      IF b = "Add" THEN ii ELSE ii - 1,
                      IF b = "Remove" THEN jj ELSE jj - 1,
                      Append(acc, PushedOp(o, n, b, ii, jj)))

diff_sequences(o, n) ==
    Reverse(Backtrack(o, n, BuildLcsTable(o, n), Len(o), Len(n), <<>>))

----------------------------------------------------------------------------
(* The document tree (src/src/ast.rs:14-68).  A String is a sequence of    *)
(* one-character strings; Option<T> is <<>> for None and <<x>> for Some(x). *)

Text(t) == [kind |-> "Text", text |-> t]
Code(c) == [kind |-> "Code", text |-> c]
Emphasis(inner) == [kind |-> "Emphasis", inner |-> inner]
Strong(inner) == [kind |-> "Strong", inner |-> inner]
Strikethrough(inner) == [kind |-> "Strikethrough", inner |-> inner]
Link(url, title, content) ==
    [kind |-> "Link", url |-> url, title |-> title, inner |-> content]
Image(url, title, alt) ==
    [kind |-> "Image", url |-> url, title |-> title, inner |-> alt]
SoftBreak == [kind |-> "SoftBreak"]
HardBreak == [kind |-> "HardBreak"]
Html(h) == [kind |-> "Html", text |-> h]

Paragraph(inlines) == [kind |-> "Paragraph", content |-> inlines]
Heading(level, content) == [kind |-> "Heading", level |-> level, content |-> content]
BlockQuote(inner) == [kind |-> "BlockQuote", blocks |-> inner]
CodeBlock(language, code) == [kind |-> "CodeBlock", language |-> language, code |-> code]
List(ordered, start, items) ==
    [kind |-> "List", ordered |-> ordered, start |-> start, items |-> items]
ThematicBreak == [kind |-> "ThematicBreak"]
Table(alignments, header, rows) ==
    [kind |-> "Table", alignments |-> alignments, header |-> header, rows |-> rows]
HtmlBlock(html) == [kind |-> "HtmlBlock", html |-> html]

----------------------------------------------------------------------------
(* String helpers of the standard library, as the code uses them *)

\* The backtick character (a backtick cannot be written in a string here).
Backtick == "BACKTICK"

\* char::is_whitespace, on the characters the model uses
IsWhitespace(c) == c \in {" ", "\n", "\t"}

\* str::split_whitespace: the maximal runs of non-whitespace characters
RECURSIVE SplitFrom(_, _, _)
SplitFrom(s, word, acc) ==
    IF s = <<>> THEN (IF word = <<>> THEN acc ELSE Append(acc, word))
    ELSE IF IsWhitespace(Head(s))
         THEN SplitFrom(Tail(s), <<>>, IF word = <<>> THEN acc ELSE Append(acc, word))
         ELSE SplitFrom(Tail(s), Append(word, Head(s)), acc)

split_whitespace(s) == SplitFrom(s, <<>>, <<>>)

\* [String]::join(" ")
RECURSIVE JoinNoSeparator(_)
JoinNoSeparator(words) ==
    IF words = <<>> THEN <<>> ELSE Head(words) \o JoinNoSeparator(Tail(words))
RECURSIVE JoinSpace(_)
JoinSpace(words) ==
    IF words = <<>> THEN <<>>
    ELSE IF Len(words) = 1 THEN Head(words)
    ELSE Head(words) \o <<" ">> \o JoinSpace(Tail(words))

\* str::trim_end_matches('\n')
TrimEndOneNewline(s) ==
    IF s # <<>> /\ s[Len(s)] = "\n" THEN SubSeq(s, 1, Len(s) - 1) ELSE s
RECURSIVE TrimEndNewlines(_)
TrimEndNewlines(s) ==
    IF s # <<>> /\ s[Len(s)] = "\n" THEN TrimEndNewlines(SubSeq(s, 1, Len(s) - 1))
    ELSE s

----------------------------------------------------------------------------
(* inline_text (src/src/ast.rs:523-543) *)

RECURSIVE inline_text_code_bare(_)
inline_text_code_bare(inlines) ==
    IF inlines = <<>> THEN <<>>
    ELSE LET x == Head(inlines)
             piece ==
                 CASE x.kind \in {"Text", "Code", "Html"} -> x.text
                   [] x.kind \in {"SoftBreak", "HardBreak"} -> <<" ">>
                   [] OTHER -> inline_text_code_bare(x.inner)
         IN piece \o inline_text_code_bare(Tail(inlines))
RECURSIVE inline_text(_)
inline_text(inlines) ==
    IF inlines = <<>> THEN <<>>
    ELSE LET x == Head(inlines)
             piece ==
                 CASE x.kind = "Text" -> x.text
                   [] x.kind = "Code" -> <<Backtick>> \o x.text \o <<Backtick>>
                   [] x.kind \in {"Emphasis", "Strong", "Strikethrough"} ->
                          inline_text(x.inner)
                   [] x.kind = "Link" -> inline_text(x.inner)
                   [] x.kind = "Image" -> inline_text(x.inner)
                   [] x.kind \in {"SoftBreak", "HardBreak"} -> <<" ">>
                   [] x.kind = "Html" -> x.text
         IN piece \o inline_text(Tail(inlines))

----------------------------------------------------------------------------
(* render_to_markdown (src/src/ast.rs:333-520), character by character *)

\* str::split('\n'): the pieces between newlines, empty pieces included
RECURSIVE SplitLinesFrom(_, _, _)
SplitLinesFrom(s, line, acc) ==
    IF s = <<>> THEN Append(acc, line)
    ELSE IF Head(s) = "\n" THEN SplitLinesFrom(Tail(s), <<>>, Append(acc, line))
         ELSE SplitLinesFrom(Tail(s), Append(line, Head(s)), acc)

split_lines(s) == SplitLinesFrom(s, <<>>, <<>>)

\* format!("{}", n) for a u64
RECURSIVE Decimal(_)
Decimal(n) ==
    LET digit == <<"0", "1", "2", "3", "4", "5", "6", "7", "8", "9">>[(n % 10) + 1]
    IN IF n < 10 THEN <<digit>> ELSE Append(Decimal(n \div 10), digit)

\* the ` "title"` part of a link or an image
RenderTitle(title) == IF title # <<>> THEN <<" ", "\"">> \o title \o <<"\"">> ELSE <<>>

RECURSIVE render_inlines(_)
render_inlines(inlines) ==
    IF inlines = <<>> THEN <<>>
    ELSE LET x == Head(inlines)
             piece ==
                 CASE x.kind = "Text" -> x.text
                   [] x.kind = "Code" -> <<Backtick>> \o x.text \o <<Backtick>>
                   [] x.kind = "Emphasis" -> <<"*">> \o render_inlines(x.inner) \o <<"*">>
                   [] x.kind = "Strong" ->
                          <<"*", "*">> \o render_inlines(x.inner) \o <<"*", "*">>
                   [] x.kind = "Strikethrough" ->
                          <<"~", "~">> \o render_inlines(x.inner) \o <<"~", "~">>
                   [] x.kind = "Link" ->
                          <<"[">> \o render_inlines(x.inner) \o <<"]", "(">> \o x.url
                              \o RenderTitle(x.title) \o <<")">>
                   [] x.kind = "Image" ->
                          <<"!", "[">> \o render_inlines(x.inner) \o <<"]", "(">> \o x.url
                              \o RenderTitle(x.title) \o <<")">>
                   [] x.kind = "SoftBreak" -> <<"\n">>
                   [] x.kind = "HardBreak" -> <<" ", " ", "\n">>
                   [] x.kind = "Html" -> x.text
         IN piece \o render_inlines(Tail(inlines))

\* render_table_row
render_table_row(cells) ==
    <<"|">> \o Flatten([c \in 1..Len(cells) |->
                           <<" ">> \o render_inlines(cells[c]) \o <<" ", "|">>])
        \o <<"\n">>

\* One line of a block quote with its prefix (lines 362-370).
QuoteLineBlankBare(line) ==
    IF line = <<>> THEN <<"\n">> ELSE <<">", " ">> \o line \o <<"\n">>
QuoteLine(line) ==
    IF line = <<>> THEN <<">", "\n">> ELSE <<">", " ">> \o line \o <<"\n">>

\* One line of a list item: k is its index among the item's lines.
ItemLine(line, k) ==
    IF k = 1 THEN line \o <<"\n">>
    ELSE IF line = <<>> THEN <<"\n">>
    ELSE <<" ", " ">> \o line \o <<"\n">>

\* The separator row of a table
SeparatorCell(a) ==
    CASE a = "None" -> <<" ", "-", "-", "-", " ", "|">>
      [] a = "Left" -> <<" ", ":", "-", "-", " ", "|">>
      [] a = "Center" -> <<" ", ":", "-", ":", " ", "|">>
      [] a = "Right" -> <<" ", "-", "-", ":", " ", "|">>

Fence == <<Backtick, Backtick, Backtick>>

\* The text one block appends to out, and render_blocks over a block
\* sequence; idx is the block's index in the enumeration.
RECURSIVE render_block(_)
RECURSIVE RenderBlocksFrom(_, _, _)

render_blocks(blocks) == RenderBlocksFrom(<<>>, blocks, 0)

render_block(block) ==
    CASE block.kind = "Paragraph" -> render_inlines(block.content) \o <<"\n", "\n">>
      [] block.kind = "Heading" ->
             [k \in 1..block.level |-> "#"] \o <<" ">> \o render_inlines(block.content)
                 \o <<"\n", "\n">>
      [] block.kind = "BlockQuote" ->
             LET lines == split_lines(TrimEndNewlines(render_blocks(block.blocks)))
             IN Flatten([k \in 1..Len(lines) |-> QuoteLine(lines[k])]) \o <<"\n">>
      [] block.kind = "CodeBlock" ->
             Fence \o (IF block.language # <<>> THEN block.language[1] ELSE <<>>)
                 \o <<"\n">> \o block.code
                 \o (IF block.code = <<>> \/ block.code[Len(block.code)] # "\n"
                     THEN <<"\n">> ELSE <<>>)
                 \o Fence \o <<"\n", "\n">>
      [] block.kind = "List" ->
             LET start_num == IF block.start # <<>> THEN block.start[1] ELSE 1
                 item(jj) ==
                     LET lines == split_lines(
                                      TrimEndNewlines(render_blocks(block.items[jj])))
                     IN (IF block.ordered
                         THEN Decimal(start_num + (jj - 1)) \o <<".", " ">>
                         ELSE <<"-", " ">>)
                        \o Flatten([k \in 1..Len(lines) |-> ItemLine(lines[k], k)])
             IN Flatten([jj \in 1..Len(block.items) |-> item(jj)]) \o <<"\n">>
      [] block.kind = "ThematicBreak" -> <<"-", "-", "-", "\n", "\n">>
      [] block.kind = "Table" ->
             render_table_row(block.header)
                 \o <<"|">>
                 \o Flatten([a \in 1..Len(block.alignments) |->
                                 SeparatorCell(block.alignments[a])])
                 \o <<"\n">>
                 \o Flatten([r \in 1..Len(block.rows) |-> render_table_row(block.rows[r])])
                 \o <<"\n">>
      [] block.kind = "HtmlBlock" ->
             block.html
                 \o (IF block.html = <<>> \/ block.html[Len(block.html)] # "\n"
                     THEN <<"\n">> ELSE <<>>)
                 \o <<"\n">>

RenderBlocksFrom(out, blocks, idx) ==
    IF blocks = <<>> THEN out
    ELSE LET sep == IF idx > 0 /\ out # <<>> /\ out[Len(out)] # "\n"
                    THEN <<"\n">> ELSE <<>>
         IN RenderBlocksFrom(out \o sep \o render_block(Head(blocks)), Tail(blocks),
                             idx + 1)

render_to_markdown(blocks) == render_blocks(blocks)

----------------------------------------------------------------------------
(* diff_inlines (src/src/diff.rs:223-277) and the CodeBlock arm's word     *)
(* diff (src/src/diff.rs:167-213).  A run state is the three locals        *)
(* result, removed_run, added_run.                                         *)

RunState(res, removed, added) == [result |-> res, removed |-> removed, added |-> added]

\* result.push(Text(" ")) when result is not empty
SeparatedAlways(res) == Append(res, Text(<<" ">>))
Separated(res) == IF res # <<>> THEN Append(res, Text(<<" ">>)) ELSE res

\* One leaf of a span or a plain token: Text in diff_inlines, Code in the
\* CodeBlock arm.
LeafAlwaysText(leaf, s) == Text(s)
Leaf(leaf, s) == IF leaf = "Code" THEN Code(s) ELSE Text(s)

\* The closures flush_runs (lines 237-255) and flush (lines 174-193): they
\* differ only in the leaf.
FlushClosureAddedFirst(st, leaf) ==
    LET r1 == IF st.added # <<>>
              THEN Append(Separated(st.result), Strong(<<Leaf(leaf, JoinSpace(st.added))>>))
              ELSE st.result
        r2 == IF st.removed # <<>>
              THEN Append(Separated(r1),
                          Strikethrough(<<Leaf(leaf, JoinSpace(st.removed))>>))
              ELSE r1
    IN RunState(r2, <<>>, <<>>)
FlushClosure(st, leaf) ==
    LET r1 == IF st.removed # <<>>
              THEN Append(Separated(st.result),
                          Strikethrough(<<Leaf(leaf, JoinSpace(st.removed))>>))
              ELSE st.result
        r2 == IF st.added # <<>>
              THEN Append(Separated(r1), Strong(<<Leaf(leaf, JoinSpace(st.added))>>))
              ELSE r1
    IN RunState(r2, <<>>, <<>>)

flush_runs_code(st) == FlushClosure(st, "Code")
flush_runs(st) == FlushClosure(st, "Text")
flush(st) == FlushClosure(st, "Code")

\* One iteration of the loop over the word ops (lines 257-273, 195-211).
WordStep(st, op, leaf) ==
    CASE op.op = "Equal" ->
             LET f == FlushClosure(st, leaf)
             IN RunState(Append(Separated(f.result), Leaf(leaf, op.val)), <<>>, <<>>)
      [] op.op = "Remove" -> RunState(st.result, Append(st.removed, op.val), st.added)
      [] OTHER -> RunState(st.result, st.removed, Append(st.added, op.val))

RECURSIVE WordLoop(_, _, _)
WordLoop(st, wops, leaf) ==
    IF wops = <<>> THEN st ELSE WordLoop(WordStep(st, Head(wops), leaf), Tail(wops), leaf)

\* The loop and the final flush, over the ops of two word streams.
WordDiff(old_words, new_words, leaf) ==
    FlushClosure(WordLoop(RunState(<<>>, <<>>, <<>>),
                          diff_sequences(old_words, new_words), leaf), leaf).result

diff_inlines(old_inl, new_inl) ==
    WordDiff(split_whitespace(inline_text(old_inl)),
             split_whitespace(inline_text(new_inl)), "Text")

----------------------------------------------------------------------------
(* wrap_block_removed, wrap_block_added (src/src/diff.rs:279-393) *)

Dashes == <<"-", "-", "-">>

RECURSIVE wrap_block_removed(_)
wrap_block_removed(block) ==
    CASE block.kind = "Paragraph" -> Paragraph(<<Strikethrough(block.content)>>)
      [] block.kind = "Heading" ->
             Heading(block.level, <<Strikethrough(block.content)>>)
      [] block.kind = "CodeBlock" ->
             Paragraph(<<Strikethrough(<<Code(TrimEndNewlines(block.code))>>)>>)
      [] block.kind = "BlockQuote" ->
             BlockQuote([k \in 1..Len(block.blocks) |->
                             wrap_block_removed(block.blocks[k])])
      [] block.kind = "List" ->
             List(block.ordered, block.start,
                  [k \in 1..Len(block.items) |->
                       [l \in 1..Len(block.items[k]) |->
                            wrap_block_removed(block.items[k][l])]])
      [] block.kind = "ThematicBreak" ->
             Paragraph(<<Strikethrough(<<Text(Dashes)>>)>>)
      [] block.kind = "Table" ->
             LET wrap_cells(cells) ==
                     [c \in 1..Len(cells) |-> <<Strikethrough(cells[c])>>]
             IN Table(block.alignments, wrap_cells(block.header),
                      [r \in 1..Len(block.rows) |-> wrap_cells(block.rows[r])])
      [] block.kind = "HtmlBlock" ->
             Paragraph(<<Strikethrough(<<Text(block.html)>>)>>)

RECURSIVE wrap_block_added(_)
wrap_block_added_struck(block) == wrap_block_removed(block)
wrap_block_added(block) ==
    CASE block.kind = "Paragraph" -> Paragraph(<<Strong(block.content)>>)
      [] block.kind = "Heading" -> Heading(block.level, <<Strong(block.content)>>)
      [] block.kind = "CodeBlock" ->
             Paragraph(<<Strong(<<Code(TrimEndNewlines(block.code))>>)>>)
      [] block.kind = "BlockQuote" ->
             BlockQuote([k \in 1..Len(block.blocks) |->
                             wrap_block_added(block.blocks[k])])
      [] block.kind = "List" ->
             List(block.ordered, block.start,
                  [k \in 1..Len(block.items) |->
                       [l \in 1..Len(block.items[k]) |->
                            wrap_block_added(block.items[k][l])]])
      [] block.kind = "ThematicBreak" -> Paragraph(<<Strong(<<Text(Dashes)>>)>>)
      [] block.kind = "Table" ->
             LET wrap_cells(cells) == [c \in 1..Len(cells) |-> <<Strong(cells[c])>>]
             IN Table(block.alignments, wrap_cells(block.header),
                      [r \in 1..Len(block.rows) |-> wrap_cells(block.rows[r])])
      [] block.kind = "HtmlBlock" -> Paragraph(<<Strong(<<Text(block.html)>>)>>)

----------------------------------------------------------------------------
(* same_variant, flush_removes and the pairing (src/src/diff.rs:74-125) *)

same_variant_any_kind(a, b) == a.kind = b.kind
same_variant(a, b) ==
    \/ a.kind = "Paragraph" /\ b.kind = "Paragraph"
    \/ a.kind = "Heading" /\ b.kind = "Heading"
    \/ a.kind = "BlockQuote" /\ b.kind = "BlockQuote"
    \/ a.kind = "CodeBlock" /\ b.kind = "CodeBlock"

\* pending.drain(..) with result.push(wrap_block_removed(block)) for each
flush_removes_reversed(res, pending) ==
    [result |-> res \o [k \in 1..Len(pending) |->
                            wrap_block_removed(pending[Len(pending) + 1 - k])],
     pending |-> <<>>]
flush_removes_silent(res, pending) == [result |-> res, pending |-> <<>>]
flush_removes_no_drain(res, pending) ==
    [result |-> res \o [k \in 1..Len(pending) |-> wrap_block_removed(pending[k])],
     pending |-> pending]
flush_removes(res, pending) ==
    [result |-> res \o [k \in 1..Len(pending) |-> wrap_block_removed(pending[k])],
     pending |-> <<>>]

\* pending_removes.iter().position(|r| same_variant(r, block)), 1-based
position_first(pending, block) == IF pending = <<>> THEN <<>> ELSE <<1>>
position_last(pending, block) ==
    LET hits == {k \in 1..Len(pending) : same_variant(pending[k], block)}
    IN IF hits = {} THEN <<>>
       ELSE <<CHOOSE k \in hits : \A h \in hits : h <= k>>
position(pending, block) ==
    LET hits == {k \in 1..Len(pending) : same_variant(pending[k], block)}
    IN IF hits = {} THEN <<>>
       ELSE <<CHOOSE k \in hits : \A h \in hits : k <= h>>

\* Vec::remove(idx), 1-based
RemoveThrough(s, idx) == SubSeq(s, idx + 1, Len(s))
RemoveAt(s, idx) == SubSeq(s, 1, idx - 1) \o SubSeq(s, idx + 1, Len(s))

----------------------------------------------------------------------------
(* ast::parse of a text that render_to_markdown produced                   *)
(* (src/src/ast.rs:78-82, 333-337).  The parser proper is the              *)
(* pulldown-cmark crate; of its effect on a rendered tree the model keeps  *)
(* that adjacent text runs come back as one Text node.                     *)

RECURSIVE CoalesceInlines(_)
CoalesceInlines(inlines) ==
    IF inlines = <<>> THEN <<>>
    ELSE LET x == Head(inlines)
             y == IF x.kind \in {"Emphasis", "Strong", "Strikethrough", "Link", "Image"}
                  THEN [x EXCEPT !.inner = CoalesceInlines(x.inner)]
                  ELSE x
             rest == CoalesceInlines(Tail(inlines))
         IN IF y.kind = "Text" /\ rest # <<>> /\ Head(rest).kind = "Text"
            THEN <<Text(y.text \o Head(rest).text)>> \o Tail(rest)
            ELSE <<y>> \o rest

RECURSIVE parse_rendered(_)
parse_rendered(blocks) ==
    LET one(b) ==
            CASE b.kind \in {"Paragraph", "Heading"} ->
                     [b EXCEPT !.content = CoalesceInlines(b.content)]
              [] b.kind = "BlockQuote" -> BlockQuote(parse_rendered(b.blocks))
              [] b.kind = "List" ->
                     [b EXCEPT !.items =
                          [k \in 1..Len(b.items) |-> parse_rendered(b.items[k])]]
              [] b.kind = "Table" ->
                     LET cells(row) == [c \in 1..Len(row) |-> CoalesceInlines(row[c])]
                     IN [b EXCEPT !.header = cells(b.header),
                                  !.rows = [r \in 1..Len(b.rows) |-> cells(b.rows[r])]]
              [] OTHER -> b
    IN [k \in 1..Len(blocks) |-> one(blocks[k])]

----------------------------------------------------------------------------
(* diff_block_inline (src/src/diff.rs:127-221) and the loop of             *)
(* diff_markdown_inline as a function of the two block sequences           *)

RECURSIVE diff_block_inline(_, _)
RECURSIVE InlineLoop(_, _)

\* One iteration of the loop over diff_ops (lines 95-115); st is
\* [result, pending].
InlineStep(st, op) ==
    CASE op.op = "Equal" ->
             LET f == flush_removes(st.result, st.pending)
             IN [result |-> Append(f.result, op.val), pending |-> f.pending]
      [] op.op = "Remove" ->
             [result |-> st.result, pending |-> Append(st.pending, op.val)]
      [] OTHER ->
             LET idx == position(st.pending, op.val)
             IN IF idx # <<>>
                THEN [result |-> Append(st.result,
                                        diff_block_inline(st.pending[idx[1]], op.val)),
                      pending |-> RemoveAt(st.pending, idx[1])]
                ELSE LET f == flush_removes(st.result, st.pending)
                     IN [result |-> Append(f.result, wrap_block_added(op.val)),
                         pending |-> f.pending]

InlineLoop(st, dops) ==
    IF dops = <<>> THEN st ELSE InlineLoop(InlineStep(st, Head(dops)), Tail(dops))

\* Lines 89-116: from the parsed blocks to result_blocks.
diff_blocks_inline(ob, nb) ==
    LET st == InlineLoop([result |-> <<>>, pending |-> <<>>], diff_sequences(ob, nb))
    IN flush_removes(st.result, st.pending).result

\* The Heading arm (lines 132-144): level is bound from the old block.
HeadingArmNewLevel(o, n) == Heading(n.level, diff_inlines(o.content, n.content))
HeadingArm(o, n) == Heading(o.level, diff_inlines(o.content, n.content))

diff_block_inline(o, n) ==
    CASE o.kind = "Paragraph" /\ n.kind = "Paragraph" ->
             Paragraph(diff_inlines(o.content, n.content))
      [] o.kind = "Heading" /\ n.kind = "Heading" -> HeadingArm(o, n)
      [] o.kind = "BlockQuote" /\ n.kind = "BlockQuote" ->
             BlockQuote(parse_rendered(
                 diff_blocks_inline(parse_rendered(o.blocks), parse_rendered(n.blocks))))
      [] o.kind = "CodeBlock" /\ n.kind = "CodeBlock" ->
             IF o.code = n.code /\ o.language = n.language
             THEN n
             ELSE Paragraph(WordDiff(split_whitespace(o.code),
                                     split_whitespace(n.code), "Code"))
      [] OTHER -> wrap_block_removed(o)

\* One output block of diff_markdown per op (lines 57-67).
WholeEmitSwapped(op) ==
    CASE op.op = "Equal" -> op.val
      [] op.op = "Remove" -> wrap_block_added(op.val)
      [] OTHER -> wrap_block_removed(op.val)
WholeEmit(op) ==
    CASE op.op = "Equal" -> op.val
      [] op.op = "Remove" -> wrap_block_removed(op.val)
      [] OTHER -> wrap_block_added(op.val)

----------------------------------------------------------------------------
(* The aligner as a state machine: one action per loop iteration *)

\* The unit test's input (src/src/diff.rs:568-571)
BasicOld == <<1, 2, 3, 4, 5>>
BasicNew == <<1, 3, 4, 6>>

AlignInputs ==
    (SeqsUpTo(1..MaxVal, MaxLen) \X SeqsUpTo(1..MaxVal, MaxLen))
        \cup {<<BasicOld, BasicNew>>}

DiffIdle ==
    /\ mode = "none"
    /\ old_blocks = <<>>
    /\ new_blocks = <<>>
    /\ diff_ops = <<>>
    /\ pos = 0
    /\ result_blocks = <<>>
    /\ pending_removes = <<>>
    /\ last = "none"
    /\ pc = "idle"

SectionsIdle ==
    /\ input_code = <<>>
    /\ code_lines = <<>>
    /\ lpos = 0
    /\ sections = <<>>
    /\ current_language = <<>>
    /\ current_code = <<>>
    /\ spc = "idle"

InlineIdle ==
    /\ old_inlines = <<>>
    /\ new_inlines = <<>>
    /\ word_ops = <<>>
    /\ wpos = 0
    /\ result = <<>>
    /\ removed_run = <<>>
    /\ added_run = <<>>
    /\ ipc = "idle"

InitAlign ==
    /\ \E input \in AlignInputs : old = input[1] /\ new = input[2]
    /\ table = <<>>
    /\ i = 0
    /\ j = 0
    /\ ops = <<>>
    /\ phase = "start"
    /\ DiffIdle
    /\ InlineIdle
    /\ SectionsIdle

\* lines 12-30: m, n, the table, and the start of the backtrack
AlignBuildTable ==
    /\ phase = "start"
    /\ table' = BuildLcsTable(old, new)
    /\ i' = Len(old)
    /\ j' = Len(new)
    /\ ops' = <<>>
    /\ phase' = "backtrack"
    /\ UNCHANGED <<old, new>>
    /\ UNCHANGED notAlign

\* lines 32-35
BacktrackEqual ==
    /\ phase = "backtrack"
    /\ (i > 0 \/ j > 0)
    /\ BacktrackBranch(old, new, table, i, j) = "Equal"
    /\ ops' = Append(ops, PushedOp(old, new, "Equal", i, j))
    /\ i' = i - 1
    /\ j' = j - 1
    /\ UNCHANGED <<old, new, table, phase>>
    /\ UNCHANGED notAlign

\* lines 36-38
BacktrackAddNoStep ==
    /\ phase = "backtrack"
    /\ (i > 0 \/ j > 0)
    /\ BacktrackBranch(old, new, table, i, j) = "Add"
    /\ ops' = Append(ops, PushedOp(old, new, "Add", i, j))
    /\ UNCHANGED <<old, new, table, i, j, phase>>
    /\ UNCHANGED notAlign
BacktrackAdd ==
    /\ phase = "backtrack"
    /\ (i > 0 \/ j > 0)
    /\ BacktrackBranch(old, new, table, i, j) = "Add"
    /\ ops' = Append(ops, PushedOp(old, new, "Add", i, j))
    /\ j' = j - 1
    /\ UNCHANGED <<old, new, table, i, phase>>
    /\ UNCHANGED notAlign

\* lines 39-42
BacktrackRemove ==
    /\ phase = "backtrack"
    /\ (i > 0 \/ j > 0)
    /\ BacktrackBranch(old, new, table, i, j) = "Remove"
    /\ ops' = Append(ops, PushedOp(old, new, "Remove", i, j))
    /\ i' = i - 1
    /\ UNCHANGED <<old, new, table, j, phase>>
    /\ UNCHANGED notAlign

\* lines 44-45: the loop has ended, ops.reverse()
AlignFinish ==
    /\ phase = "backtrack"
    /\ ~(i > 0 \/ j > 0)
    /\ ops' = Reverse(ops)
    /\ phase' = "done"
    /\ UNCHANGED <<old, new, table, i, j>>
    /\ UNCHANGED notAlign

NextAlign ==
    \/ AlignBuildTable
    \/ BacktrackEqual
    \/ BacktrackAdd
    \/ BacktrackRemove
    \/ AlignFinish

SpecAlign == InitAlign /\ [][NextAlign]_vars

----------------------------------------------------------------------------
(* Parsed documents the differ is run on *)

ParaAB == Paragraph(<<Text(<<"a", " ", "b">>)>>)
ParaAC == Paragraph(<<Text(<<"a", " ", "c">>)>>)
ParaRich ==
    Paragraph(<<Text(<<"a", " ">>), Strong(<<Text(<<"b">>)>>), SoftBreak,
                Code(<<"c", " ", "d">>)>>)
HeadOne == Heading(1, <<Text(<<"a", " ", "b">>)>>)
HeadTwo == Heading(2, <<Text(<<"a", " ", "c">>)>>)
CodeRust == CodeBlock(<< <<"r">> >>, <<"x", " ", "y", "\n">>)
CodePlain == CodeBlock(<<>>, <<"x", " ", "z", "\n">>)
QuoteOne == BlockQuote(<<ParaAB>>)
QuoteTwo == BlockQuote(<<ParaAC, CodeRust>>)
ListTwo == List(FALSE, <<>>, << <<ParaAB>>, <<ParaAC>> >>)
ListOrdered == List(TRUE, <<3>>, << <<ParaAB>> >>)
TableOne ==
    Table(<<"None", "Left">>,
          << <<Text(<<"a">>)>>, <<Text(<<"b">>)>> >>,
          << << <<Text(<<"c">>)>>, <<Text(<<"d">>)>> >> >>)
HtmlOne == HtmlBlock(<<"<", "p", ">", "\n">>)

\* The heading levels the parser produces (H1..H6).
HeadingLevels == {1, 2, 3, 4, 5, 6}

\* Each document pair is drawn over one of these families of blocks.
BlockPools ==
    { {ParaAB, ParaAC, ParaRich, ListTwo},
      {HeadOne, HeadTwo, ParaAB},
      {QuoteOne, QuoteTwo, ThematicBreak},
      {CodeRust, CodePlain, TableOne},
      {ListTwo, ListOrdered, HtmlOne} }

AllBlocks == UNION BlockPools

DocPairs ==
    UNION {SeqsUpTo(pool, MaxOld) \X SeqsUpTo(pool, MaxNew) : pool \in BlockPools}

----------------------------------------------------------------------------
(* diff_markdown and diff_markdown_inline as a state machine: one action   *)
(* per aligner op.  old_blocks and new_blocks are ast::parse(old) and      *)
(* ast::parse(new); last names the branch the latest iteration took.       *)

AlignIdle ==
    /\ old = <<>>
    /\ new = <<>>
    /\ table = <<>>
    /\ i = 0
    /\ j = 0
    /\ ops = <<>>
    /\ phase = "idle"

Branch(name, idx) == [branch |-> name, idx |-> idx]

Init ==
    /\ mode \in {"whole", "inline"}
    /\ \E doc \in DocPairs : old_blocks = doc[1] /\ new_blocks = doc[2]
    /\ diff_ops = <<>>
    /\ pos = 0
    /\ result_blocks = <<>>
    /\ pending_removes = <<>>
    /\ last = Branch("none", 0)
    /\ pc = "start"
    /\ AlignIdle
    /\ InlineIdle
    /\ SectionsIdle

\* lines 53-55 and 89-93
DiffAlign ==
    /\ pc = "start"
    /\ diff_ops' = diff_sequences(old_blocks, new_blocks)
    /\ pos' = 0
    /\ result_blocks' = <<>>
    /\ pending_removes' = <<>>
    /\ last' = Branch("align", 0)
    /\ pc' = "loop"
    /\ UNCHANGED <<mode, old_blocks, new_blocks>>
    /\ UNCHANGED notDiff

\* The op the loop is about to handle.
InLoop(m) == pc = "loop" /\ mode = m /\ pos < Len(diff_ops)
CurOp == diff_ops[pos + 1]

\* diff_markdown, lines 56-68
WholeStep ==
    /\ InLoop("whole")
    /\ result_blocks' = Append(result_blocks, WholeEmit(CurOp))
    /\ pos' = pos + 1
    /\ last' = Branch(CurOp.op, 0)
    /\ UNCHANGED <<mode, old_blocks, new_blocks, diff_ops, pending_removes, pc>>
    /\ UNCHANGED notDiff

\* diff_markdown, line 70
WholeFinish ==
    /\ pc = "loop"
    /\ mode = "whole"
    /\ pos = Len(diff_ops)
    /\ last' = Branch("finish", 0)
    /\ pc' = "done"
    /\ UNCHANGED <<mode, old_blocks, new_blocks, diff_ops, pos, result_blocks,
                   pending_removes>>
    /\ UNCHANGED notDiff

\* diff_markdown_inline, lines 97-100
InlineEqualNoFlush ==
    /\ InLoop("inline")
    /\ CurOp.op = "Equal"
    /\ result_blocks' = Append(result_blocks, CurOp.val)
    /\ pos' = pos + 1
    /\ last' = Branch("Equal", 0)
    /\ UNCHANGED <<mode, old_blocks, new_blocks, diff_ops, pending_removes, pc>>
    /\ UNCHANGED notDiff
InlineEqual ==
    /\ InLoop("inline")
    /\ CurOp.op = "Equal"
    /\ LET f == flush_removes(result_blocks, pending_removes)
       IN /\ result_blocks' = Append(f.result, CurOp.val)
          /\ pending_removes' = f.pending
    /\ pos' = pos + 1
    /\ last' = Branch("Equal", 0)
    /\ UNCHANGED <<mode, old_blocks, new_blocks, diff_ops, pc>>
    /\ UNCHANGED notDiff

\* diff_markdown_inline, lines 101-103
InlineRemovePushFront ==
    /\ InLoop("inline")
    /\ CurOp.op = "Remove"
    /\ pending_removes' = <<CurOp.val>> \o pending_removes
    /\ pos' = pos + 1
    /\ last' = Branch("Remove", 0)
    /\ UNCHANGED <<mode, old_blocks, new_blocks, diff_ops, result_blocks, pc>>
    /\ UNCHANGED notDiff
InlineRemove ==
    /\ InLoop("inline")
    /\ CurOp.op = "Remove"
    /\ pending_removes' = Append(pending_removes, CurOp.val)
    /\ pos' = pos + 1
    /\ last' = Branch("Remove", 0)
    /\ UNCHANGED <<mode, old_blocks, new_blocks, diff_ops, result_blocks, pc>>
    /\ UNCHANGED notDiff

\* diff_markdown_inline, lines 104-108
InlineAddPaired ==
    /\ InLoop("inline")
    /\ CurOp.op = "Add"
    /\ LET idx == position(pending_removes, CurOp.val)
       IN /\ idx # <<>>
          /\ result_blocks' =
                 Append(result_blocks,
                        diff_block_inline(pending_removes[idx[1]], CurOp.val))
          /\ pending_removes' = RemoveAt(pending_removes, idx[1])
          /\ last' = Branch("AddPaired", idx[1])
    /\ pos' = pos + 1
    /\ UNCHANGED <<mode, old_blocks, new_blocks, diff_ops, pc>>
    /\ UNCHANGED notDiff

\* diff_markdown_inline, lines 104-106 and 109-112
InlineAddUnpaired ==
    /\ InLoop("inline")
    /\ CurOp.op = "Add"
    /\ position(pending_removes, CurOp.val) = <<>>
    /\ LET f == flush_removes(result_blocks, pending_removes)
       IN /\ result_blocks' = Append(f.result, wrap_block_added(CurOp.val))
          /\ pending_removes' = f.pending
    /\ pos' = pos + 1
    /\ last' = Branch("AddUnpaired", 0)
    /\ UNCHANGED <<mode, old_blocks, new_blocks, diff_ops, pc>>
    /\ UNCHANGED notDiff

\* diff_markdown_inline, lines 116-118
InlineFinish ==
    /\ pc = "loop"
    /\ mode = "inline"
    /\ pos = Len(diff_ops)
    /\ LET f == flush_removes(result_blocks, pending_removes)
       IN /\ result_blocks' = f.result
          /\ pending_removes' = f.pending
    /\ last' = Branch("finish", 0)
    /\ pc' = "done"
    /\ UNCHANGED <<mode, old_blocks, new_blocks, diff_ops, pos>>
    /\ UNCHANGED notDiff

Next ==
    \/ DiffAlign
    \/ WholeStep
    \/ WholeFinish
    \/ InlineEqual
    \/ InlineRemove
    \/ InlineAddPaired
    \/ InlineAddUnpaired
    \/ InlineFinish

Spec == Init /\ [][Next]_vars

\* The stepwise run and the function agree.
InlineMatchesFunction ==
    (mode = "inline" /\ pc = "done") =>
        result_blocks = diff_blocks_inline(old_blocks, new_blocks)

----------------------------------------------------------------------------
(* diff_inlines as a state machine: one action per word op *)

\* Each pair of inline sequences is drawn over one of these families.
InlinePools ==
    { {Text(<<"a", " ", "b", " ">>), Text(<<"c">>), Text(<<"b", " ", "d">>),
       Strong(<<Text(<<"a", " ", "c">>)>>)},
      {Code(<<"a", " ", "b">>), SoftBreak, Text(<<"b">>),
       Link(<<"u">>, <<"t">>, <<Text(<<"a", " ", "c">>)>>)},
      {Emphasis(<<Text(<<"a", " ", "b">>)>>), HardBreak, Html(<<"<", "i", ">">>),
       Image(<<"u">>, <<>>, <<Text(<<"b", " ", "c">>)>>)} }

InlinePairs ==
    UNION {SeqsUpTo(pool, MaxInl) \X SeqsUpTo(pool, MaxInl) : pool \in InlinePools}

InitInline ==
    /\ \E input \in InlinePairs : old_inlines = input[1] /\ new_inlines = input[2]
    /\ word_ops = <<>>
    /\ wpos = 0
    /\ result = <<>>
    /\ removed_run = <<>>
    /\ added_run = <<>>
    /\ ipc = "start"
    /\ AlignIdle
    /\ DiffIdle
    /\ SectionsIdle

\* lines 225-235: flatten, split into words, align
InlineWords ==
    /\ ipc = "start"
    /\ word_ops' = diff_sequences(split_whitespace(inline_text(old_inlines)),
                                  split_whitespace(inline_text(new_inlines)))
    /\ wpos' = 0
    /\ result' = <<>>
    /\ removed_run' = <<>>
    /\ added_run' = <<>>
    /\ ipc' = "loop"
    /\ UNCHANGED <<old_inlines, new_inlines>>
    /\ UNCHANGED notInline

InWordLoop == ipc = "loop" /\ wpos < Len(word_ops)
CurWord == word_ops[wpos + 1]

\* lines 259-265
WordEqual ==
    /\ InWordLoop
    /\ CurWord.op = "Equal"
    /\ LET f == flush_runs(RunState(result, removed_run, added_run))
       IN /\ result' = Append(Separated(f.result), Text(CurWord.val))
          /\ removed_run' = f.removed
          /\ added_run' = f.added
    /\ wpos' = wpos + 1
    /\ UNCHANGED <<old_inlines, new_inlines, word_ops, ipc>>
    /\ UNCHANGED notInline

\* lines 266-268
WordRemove ==
    /\ InWordLoop
    /\ CurWord.op = "Remove"
    /\ removed_run' = Append(removed_run, CurWord.val)
    /\ wpos' = wpos + 1
    /\ UNCHANGED <<old_inlines, new_inlines, word_ops, result, added_run, ipc>>
    /\ UNCHANGED notInline

\* lines 269-271
WordAdd ==
    /\ InWordLoop
    /\ CurWord.op = "Add"
    /\ added_run' = Append(added_run, CurWord.val)
    /\ wpos' = wpos + 1
    /\ UNCHANGED <<old_inlines, new_inlines, word_ops, result, removed_run, ipc>>
    /\ UNCHANGED notInline

\* lines 274-276: the final flush_runs, and the return
WordFinish ==
    /\ ipc = "loop"
    /\ wpos = Len(word_ops)
    /\ LET f == flush_runs(RunState(result, removed_run, added_run))
       IN /\ result' = f.result
          /\ removed_run' = f.removed
          /\ added_run' = f.added
    /\ ipc' = "done"
    /\ UNCHANGED <<old_inlines, new_inlines, word_ops, wpos>>
    /\ UNCHANGED notInline

NextInline ==
    \/ InlineWords
    \/ WordEqual
    \/ WordRemove
    \/ WordAdd
    \/ WordFinish

SpecInline == InitInline /\ [][NextInline]_vars

\* The stepwise run and the function agree.
WordsMatchFunction == ipc = "done" => result = diff_inlines(old_inlines, new_inlines)

----------------------------------------------------------------------------
(* The three machines together: a run is a run of any one of them *)

----------------------------------------------------------------------------
(* CompareHandler::parse_sections (src/src/handlers.rs:420-455)            *)
(* The content is a string, one character per element; the loop takes one  *)
(* line of code.lines() per step.  current_language is an Option: <<>> is *)
(* None and <<lang>> is Some(lang).                                        *)

\* str::lines on content without carriage returns: the pieces between
\* newlines, without the empty piece after a final newline
str_lines(s) ==
    LET pieces == split_lines(s)
    IN IF pieces[Len(pieces)] = <<>> THEN SubSeq(pieces, 1, Len(pieces) - 1)
       ELSE pieces

\* the separator prefix "/// "
SectionPrefix == <<"/", "/", "/", " ">>
BareSlashes == <<"/", "/", "/">>

\* str::strip_prefix: Some(rest) when line starts with the prefix, else None
StripPrefix(line, prefix) ==
    IF Len(prefix) <= Len(line) /\ SubSeq(line, 1, Len(prefix)) = prefix
    THEN <<SubSeq(line, Len(prefix) + 1, Len(line))>>
    ELSE <<>>

strip_prefix_bare(line) == StripPrefix(line, BareSlashes)
strip_prefix(line) == StripPrefix(line, SectionPrefix)

\* str::trim_end, str::trim_start and str::trim
RECURSIVE trim_end(_)
trim_end(s) ==
    IF s # <<>> /\ IsWhitespace(s[Len(s)]) THEN trim_end(SubSeq(s, 1, Len(s) - 1))
    ELSE s

RECURSIVE trim_start(_)
trim_start(s) ==
    IF s # <<>> /\ IsWhitespace(Head(s)) THEN trim_start(Tail(s)) ELSE s

trim(s) == trim_start(trim_end(s))

CompareSection(language, text) == [language |-> language, code |-> text]

\* lines 428-434 and 447-452: push the section in progress, if there is one
PushCurrent(done, language, text) ==
    IF language = <<>> THEN done
    ELSE Append(done, CompareSection(language[1], trim_end(text)))

\* lines 438-441
Accumulate(text, line) ==
    (IF text # <<>> THEN text \o <<"\n">> ELSE text) \o line

\* the whole function, one line at a time
RECURSIVE ParseFrom(_, _, _, _)
ParseFrom(rest, done, language, text) ==
    IF rest = <<>> THEN PushCurrent(done, language, text)
    ELSE LET line == Head(rest)
             lang == strip_prefix(line)
         IN IF lang # <<>>
            THEN ParseFrom(Tail(rest), PushCurrent(done, language, text),
                           <<trim(lang[1])>>, <<>>)
            ELSE IF language # <<>>
                 THEN ParseFrom(Tail(rest), done, language, Accumulate(text, line))
                 ELSE ParseFrom(Tail(rest), done, language, text)

parse_sections(content) == ParseFrom(str_lines(content), <<>>, <<>>, <<>>)

\* [String]::join("\n")
RECURSIVE JoinNewline(_)
JoinNewline(ls) ==
    IF ls = <<>> THEN <<>>
    ELSE IF Len(ls) = 1 THEN Head(ls)
    ELSE Head(ls) \o <<"\n">> \o JoinNewline(Tail(ls))

\* The lines the contents are made of: separators with a language to trim,
\* with an empty language and without the space, code lines, an empty line
\* and a blank one.
LinePool ==
    { <<"/", "/", "/", " ", "x">>,
      <<"/", "/", "/", " ", " ", "y", " ">>,
      <<"/", "/", "/", " ">>,
      <<"/", "/", "/">>,
      <<"a">>,
      <<"b", " ">>,
      <<" ">>,
      <<>> }

SectionInputs == {JoinNewline(ls) : ls \in SeqsUpTo(LinePool, MaxLines)}

InitSections ==
    /\ input_code \in SectionInputs
    /\ code_lines = str_lines(input_code)
    /\ lpos = 1
    /\ sections = <<>>
    /\ current_language = <<>>
    /\ current_code = <<>>
    /\ spc = "loop"
    /\ AlignIdle
    /\ DiffIdle
    /\ InlineIdle

InSectionLoop == spc = "loop" /\ lpos <= Len(code_lines)

CurLine == code_lines[lpos]

\* lines 426-435
SectionStart ==
    /\ InSectionLoop
    /\ strip_prefix(CurLine) # <<>>
    /\ sections' = PushCurrent(sections, current_language, current_code)
    /\ current_code' = <<>>
    /\ current_language' = <<trim(strip_prefix(CurLine)[1])>>
    /\ lpos' = lpos + 1
    /\ UNCHANGED <<input_code, code_lines, spc>>
    /\ UNCHANGED notSections

\* lines 436-442
SectionCode ==
    /\ InSectionLoop
    /\ strip_prefix(CurLine) = <<>>
    /\ current_language # <<>>
    /\ current_code' = Accumulate(current_code, CurLine)
    /\ lpos' = lpos + 1
    /\ UNCHANGED <<input_code, code_lines, sections, current_language, spc>>
    /\ UNCHANGED notSections

\* line 443: a line before any separator
SectionSkip ==
    /\ InSectionLoop
    /\ strip_prefix(CurLine) = <<>>
    /\ current_language = <<>>
    /\ lpos' = lpos + 1
    /\ UNCHANGED <<input_code, code_lines, sections, current_language, current_code, spc>>
    /\ UNCHANGED notSections

\* lines 446-454
SectionsFinish ==
    /\ spc = "loop"
    /\ lpos > Len(code_lines)
    /\ sections' = PushCurrent(sections, current_language, current_code)
    /\ spc' = "done"
    /\ UNCHANGED <<input_code, code_lines, lpos, current_language, current_code>>
    /\ UNCHANGED notSections

NextSections == SectionStart \/ SectionCode \/ SectionSkip \/ SectionsFinish

SpecSections == InitSections /\ [][NextSections]_vars

\* The stepwise run returns what the function returns.
SectionsMatchFunction == spc = "done" => sections = parse_sections(input_code)

InitAll == InitAlign \/ Init \/ InitInline

NextAll == NextAlign \/ Next \/ NextInline

SpecAll == InitAll /\ [][NextAll]_vars

----------------------------------------------------------------------------
(* Claims about diff_sequences, checked under SpecAlign *)

\* The elements of the ops whose tag is in kinds, in order.
RECURSIVE ValsOf(_, _)
ValsOf(os, kinds) ==
    IF os = <<>> THEN <<>>
    ELSE (IF Head(os).op \in kinds THEN <<Head(os).val>> ELSE <<>>)
             \o ValsOf(Tail(os), kinds)

OpKinds(dops) == [k \in 1..Len(dops) |-> dops[k].op]

CountOf(os, kind) == Cardinality({k \in 1..Len(os) : os[k].op = kind})

\* s is a subsequence of t
RECURSIVE IsSubseq(_, _)
IsSubseq(s, t) ==
    IF s = <<>> THEN TRUE
    ELSE IF t = <<>> THEN FALSE
    ELSE IF Head(s) = Head(t) THEN IsSubseq(Tail(s), Tail(t))
    ELSE IsSubseq(s, Tail(t))

\* the elements of s at the positions in P, in order
RECURSIVE Pick(_, _, _)
Pick(s, P, k) ==
    IF k > Len(s) THEN <<>>
    ELSE (IF k \in P THEN <<s[k]>> ELSE <<>>) \o Pick(s, P, k + 1)

\* Length of a longest common subsequence, by enumeration (no table).
LcsLength(s, t) ==
    LET sizes == {Cardinality(P) : P \in {Q \in SUBSET (1..Len(s)) :
                                           IsSubseq(Pick(s, Q, 1), t)}}
    IN CHOOSE k \in sizes : \A l \in sizes : l <= k

\* C1: when diff_sequences returns, the Equal and Remove elements of the op
\* list, in order, are exactly old, and the Equal and Add elements, in order,
\* are exactly new.
C1_Reconstructs ==
    phase = "done" =>
        /\ ValsOf(ops, {"Equal", "Remove"}) = old
        /\ ValsOf(ops, {"Equal", "Add"}) = new
        /\ \A k \in 1..Len(ops) : ops[k].op \in {"Equal", "Remove", "Add"}

C1_Witness ==
    /\ phase = "done"
    /\ CountOf(ops, "Equal") > 0
    /\ CountOf(ops, "Remove") > 0
    /\ CountOf(ops, "Add") > 0
    /\ Len(old) # Len(new)

\* C2: the number of Equal ops is the length of a longest common subsequence
\* of old and new, which is also table[m][n]; the op list has m + n - LCS
\* entries, and no alignment of old and new (of that length or shorter) has
\* more Equal ops.
C2_EqualCountIsLcs ==
    phase = "done" =>
        LET lcs == LcsLength(old, new)
        IN /\ CountOf(ops, "Equal") = lcs
           /\ At(table, Len(old), Len(new)) = lcs
           /\ Len(ops) = Len(old) + Len(new) - lcs
           /\ ValsOf(ops, {"Equal"}) \in
                  {Pick(old, Q, 1) : Q \in SUBSET (1..Len(old))}
           /\ IsSubseq(ValsOf(ops, {"Equal"}), new)

C2_Witness ==
    /\ phase = "done"
    /\ CountOf(ops, "Equal") = 2
    /\ Len(old) = 3
    /\ Len(new) = 3
    /\ old # new

\* C3: in the returned op list no Add is followed by a Remove unless an Equal
\* lies between them, so inside every maximal run of non-Equal ops all Remove
\* ops come before all Add ops; and diff([1,2,3,4,5],[1,3,4,6]) is
\* Equal 1, Remove 2, Equal 3, Equal 4, Remove 5, Add 6.
C3_RemoveBeforeAdd ==
    phase = "done" =>
        /\ \A a \in 1..Len(ops) : \A b \in 1..Len(ops) :
               (a < b /\ ops[a].op = "Add" /\ ops[b].op = "Remove")
                   => \E e \in (a + 1)..(b - 1) : ops[e].op = "Equal"
        /\ (old = BasicOld /\ new = BasicNew) =>
               ops = <<Equal(1), Remove(2), Equal(3), Equal(4), Remove(5), Add(6)>>

C3_Witness ==
    /\ phase = "done"
    /\ old = BasicOld
    /\ new = BasicNew
    /\ \E k \in 1..(Len(ops) - 1) : ops[k].op = "Remove" /\ ops[k + 1].op = "Add"

\* The stepwise run and the function agree (used by the block differ below).
AlignMatchesFunction == phase = "done" => ops = diff_sequences(old, new)

\* C18: diff_sequences fails on no pair of finite inputs, empty ones
\* included.  The table has m + 1 rows of n + 1 cells and i, j stay within
\* 0..m and 0..n; in the backtrack loop the Equal branch is taken only with
\* i > 0 and j > 0, the Add branch only with j > 0 and the Remove branch only
\* with i > 0, and table[i][j-1], table[i-1][j] are compared only with i > 0
\* and j > 0: no index is out of bounds and no subtraction goes below zero.
C18_IndexSafe ==
    phase \in {"backtrack", "done"} =>
        /\ Len(table) = Len(old) + 1
        /\ \A r \in 1..Len(table) : Len(table[r]) = Len(new) + 1
        /\ i \in 0..Len(old)
        /\ j \in 0..Len(new)
        /\ (phase = "backtrack" /\ (i > 0 \/ j > 0)) =>
               LET branch == BacktrackBranch(old, new, table, i, j)
                   tested == i > 0 /\ j > 0
                   compared == ~(tested /\ old[i] = new[j]) /\ j > 0 /\ i # 0
               IN /\ branch = "Equal" => (i - 1 \in 0..(Len(old) - 1)
                                              /\ j - 1 \in 0..(Len(new) - 1))
                  /\ branch = "Add" => j - 1 \in 0..(Len(new) - 1)
                  /\ branch = "Remove" => i - 1 \in 0..(Len(old) - 1)
                  /\ compared => (i - 1 >= 0 /\ j - 1 >= 0)
        /\ phase = "done" => (i = 0 /\ j = 0)

C18_Witness ==
    /\ phase = "done"
    /\ old = <<>>
    /\ Len(new) = 2
    /\ OpKinds(ops) = <<"Add", "Add">>
    /\ table = << <<0, 0, 0>> >>

----------------------------------------------------------------------------
(* Claims about diff_markdown and diff_markdown_inline, checked under Spec *)

Pairable == {"Paragraph", "Heading", "BlockQuote", "CodeBlock"}

\* The pending blocks, each as a whole removal, in queue order.
WholeRemovals(pending) == [k \in 1..Len(pending) |-> wrap_block_removed(pending[k])]

\* C4: when both inputs parse to the same blocks, in either mode the aligner
\* yields only Equal ops, the pending-remove queue is empty at every step,
\* the blocks emitted so far are the first pos blocks of the input, and the
\* final block sequence is the parsed input itself, with no wrapper added.
C4_SameInputNoMarkers ==
    (old_blocks = new_blocks /\ pc # "idle") =>
        /\ pending_removes = <<>>
        /\ \A k \in 1..Len(diff_ops) : diff_ops[k].op = "Equal"
        /\ result_blocks = SubSeq(old_blocks, 1, pos)
        /\ pc = "done" => result_blocks = new_blocks

C4_Witness ==
    /\ pc = "done"
    /\ mode = "inline"
    /\ old_blocks = <<ParaRich, ListTwo>>
    /\ new_blocks = old_blocks
    /\ result_blocks = old_blocks

\* C5: diff_markdown has emitted, after pos ops, exactly pos blocks, the k-th
\* being the k-th op's block itself (Equal), its whole removal (Remove) or
\* its whole addition (Add); it never queues a block, so a removed block is
\* never paired with an added one.
C5_WholeOnePerOp ==
    (mode = "whole" /\ pc \in {"loop", "done"}) =>
        /\ Len(result_blocks) = pos
        /\ pc = "done" => pos = Len(diff_ops)
        /\ pending_removes = <<>>
        /\ \A k \in 1..pos :
               result_blocks[k] =
                   CASE diff_ops[k].op = "Equal" -> diff_ops[k].val
                     [] diff_ops[k].op = "Remove" -> wrap_block_removed(diff_ops[k].val)
                     [] diff_ops[k].op = "Add" -> wrap_block_added(diff_ops[k].val)

C5_Witness ==
    /\ mode = "whole"
    /\ pc = "done"
    /\ OpKinds(diff_ops) = <<"Equal", "Remove", "Add">>
    /\ diff_ops[2].val.kind = "Paragraph"
    /\ diff_ops[3].val.kind = "Paragraph"
    /\ result_blocks = <<diff_ops[1].val, wrap_block_removed(diff_ops[2].val),
                         wrap_block_added(diff_ops[3].val)>>

\* C7: same_variant holds exactly for two blocks of the same variant among
\* Paragraph, Heading, BlockQuote and CodeBlock, whatever their level or
\* language; an added block is paired exactly when such a block is pending;
\* and a removed or added List, Table, ThematicBreak or HtmlBlock is always
\* in the output as a whole removal or a whole addition.
C7_ShapeMatch ==
    /\ \A a \in AllBlocks : \A b \in AllBlocks :
           same_variant(a, b) <=> (a.kind = b.kind /\ a.kind \in Pairable)
    /\ (InLoop("inline") /\ CurOp.op = "Add") =>
           ((position(pending_removes, CurOp.val) # <<>>)
                <=> (\E k \in 1..Len(pending_removes) :
                         /\ pending_removes[k].kind = CurOp.val.kind
                         /\ CurOp.val.kind \in Pairable))
    /\ (mode = "inline" /\ pc = "done") =>
           \A k \in 1..Len(diff_ops) :
               diff_ops[k].val.kind \notin Pairable =>
                   /\ diff_ops[k].op = "Remove" =>
                          \E r \in 1..Len(result_blocks) :
                              result_blocks[r] = wrap_block_removed(diff_ops[k].val)
                   /\ diff_ops[k].op = "Add" =>
                          \E r \in 1..Len(result_blocks) :
                              result_blocks[r] = wrap_block_added(diff_ops[k].val)

C7_Witness ==
    /\ mode = "inline"
    /\ pc = "done"
    /\ diff_ops = <<Remove(ListTwo), Add(ListOrdered)>>
    /\ result_blocks = <<wrap_block_removed(ListTwo), wrap_block_added(ListOrdered)>>

\* C8: when the op is an Add and a pending block has the shape of the added
\* block, the step removes the first such block from the queue, leaves the
\* other pending blocks in place, and emits exactly one block, the inline
\* diff of that block and the added block.
C8_PairsEarliest ==
    [][(InLoop("inline") /\ CurOp.op = "Add"
            /\ \E k \in 1..Len(pending_removes) : same_variant(pending_removes[k], CurOp.val))
        => LET first == CHOOSE k \in 1..Len(pending_removes) :
                            /\ same_variant(pending_removes[k], CurOp.val)
                            /\ \A h \in 1..(k - 1) :
                                   ~same_variant(pending_removes[h], CurOp.val)
           IN /\ result_blocks' =
                     Append(result_blocks,
                            diff_block_inline(pending_removes[first], CurOp.val))
              /\ pending_removes' =
                     SubSeq(pending_removes, 1, first - 1)
                         \o SubSeq(pending_removes, first + 1, Len(pending_removes))
              /\ pos' = pos + 1]_vars

C8_Witness ==
    /\ mode = "inline"
    /\ last = Branch("AddPaired", 2)
    /\ OpKinds(SubSeq(diff_ops, 1, pos)) = <<"Remove", "Remove", "Remove", "Add">>
    /\ diff_ops[1].val.kind = "List"
    /\ diff_ops[2].val # diff_ops[3].val
    /\ pending_removes = <<diff_ops[1].val, diff_ops[3].val>>
    /\ same_variant(diff_ops[3].val, diff_ops[4].val)
    /\ result_blocks = <<diff_block_inline(diff_ops[2].val, diff_ops[4].val)>>

\* C9: when the op is an Add and no pending block has the shape of the added
\* block, the step emits every pending block as a whole removal, in queue
\* order, then the added block as a whole addition, and leaves the queue
\* empty.
C9_UnmatchedAddFlushes ==
    [][(InLoop("inline") /\ CurOp.op = "Add"
            /\ \A k \in 1..Len(pending_removes) : ~same_variant(pending_removes[k], CurOp.val))
        => /\ result_blocks' =
                  result_blocks \o WholeRemovals(pending_removes)
                      \o <<wrap_block_added(CurOp.val)>>
           /\ pending_removes' = <<>>
           /\ pos' = pos + 1]_vars

C9_Witness ==
    /\ mode = "inline"
    /\ last = Branch("AddUnpaired", 0)
    /\ OpKinds(SubSeq(diff_ops, 1, pos)) = <<"Remove", "Remove", "Add">>
    /\ diff_ops[1].val # diff_ops[2].val
    /\ pending_removes = <<>>
    /\ result_blocks = <<wrap_block_removed(diff_ops[1].val),
                         wrap_block_removed(diff_ops[2].val),
                         wrap_block_added(diff_ops[3].val)>>

\* C10: on an Equal op the step emits every pending block as a whole
\* removal, in queue order, then the equal block unchanged, and empties the
\* queue; after the last op the remaining pending blocks are emitted as
\* whole removals; and the queue is empty when the result is rendered.
C10_EqualAndEndFlush ==
    [][/\ (InLoop("inline") /\ CurOp.op = "Equal") =>
              /\ result_blocks' =
                     result_blocks \o WholeRemovals(pending_removes) \o <<CurOp.val>>
              /\ pending_removes' = <<>>
       /\ (pc = "loop" /\ mode = "inline" /\ pos = Len(diff_ops)) =>
              /\ result_blocks' = result_blocks \o WholeRemovals(pending_removes)
              /\ pending_removes' = <<>>
              /\ pc' = "done"
       /\ pc' = "done" => pending_removes' = <<>>]_vars

C10_Witness ==
    /\ mode = "inline"
    /\ pc = "done"
    /\ OpKinds(diff_ops) = <<"Remove", "Equal", "Remove">>
    /\ pending_removes = <<>>
    /\ result_blocks = <<wrap_block_removed(diff_ops[1].val),
                         diff_ops[2].val,
                         wrap_block_removed(diff_ops[3].val)>>

\* The index of the pending block an Add op is paired with, when there is one.
FirstMatch(pending, block) ==
    CHOOSE k \in 1..Len(pending) :
        /\ pending[k].kind = block.kind
        /\ \A h \in 1..(k - 1) : pending[h].kind # block.kind

\* An Add op of the given variant is about to be paired.
Pairing(kind) ==
    /\ InLoop("inline")
    /\ CurOp.op = "Add"
    /\ CurOp.val.kind = kind
    /\ \E k \in 1..Len(pending_removes) : pending_removes[k].kind = kind

\* The heading arm on every pair of levels, over the sample contents.
HeadingLevelTable ==
    \A a \in HeadingLevels : \A b \in HeadingLevels :
        \A c \in {HeadOne.content, HeadTwo.content, ParaRich.content} :
            \A d \in {HeadOne.content, HeadTwo.content} :
                LET h == diff_block_inline(Heading(a, c), Heading(b, d))
                IN /\ h.kind = "Heading"
                   /\ h.level = a
                   /\ h.content = diff_inlines(c, d)

\* C11: when a removed Heading of level a is paired with an added Heading of
\* level b, the step emits one block, a Heading of level a (the old level)
\* whose content is the word diff of the two contents; this holds for every
\* a and b in 1..6, equal or not.
C11_HeadingKeepsOldLevel ==
    [][/\ HeadingLevelTable
       /\ Pairing("Heading") =>
              LET o == pending_removes[FirstMatch(pending_removes, CurOp.val)]
                  h == result_blocks'[Len(result_blocks')]
              IN /\ Len(result_blocks') = Len(result_blocks) + 1
                 /\ h.kind = "Heading"
                 /\ h.level = o.level
                 /\ h.content = diff_inlines(o.content, CurOp.val.content)]_vars

C11_Witness ==
    /\ mode = "inline"
    /\ pc = "done"
    /\ last = Branch("finish", 0)
    /\ diff_ops = <<Remove(HeadOne), Add(HeadTwo)>>
    /\ Len(result_blocks) = 1
    /\ result_blocks[1].kind = "Heading"
    /\ result_blocks[1].level = 1
    /\ HeadTwo.level = 2

\* The number of ops before the first Equal op: one gap of the word ops.
RECURSIVE GapLen(_)
GapLen(wops) ==
    IF wops = <<>> \/ Head(wops).op = "Equal" THEN 0 ELSE 1 + GapLen(Tail(wops))

\* What the word ops stand for, gap by gap and without separators: for a gap
\* its removed words as one Strikethrough span and its added words as one
\* Strong span, for an Equal op its word; leaf is the kind of every leaf.
RECURSIVE Tokens(_, _)
Tokens(wops, leaf) ==
    LET g == GapLen(wops)
        gap == SubSeq(wops, 1, g)
        removed == ValsOf(gap, {"Remove"})
        added == ValsOf(gap, {"Add"})
        spans ==
            (IF removed = <<>> THEN <<>>
             ELSE <<Strikethrough(<<[kind |-> leaf, text |-> JoinSpace(removed)]>>)>>)
            \o (IF added = <<>> THEN <<>>
                ELSE <<Strong(<<[kind |-> leaf, text |-> JoinSpace(added)]>>)>>)
    IN IF g = Len(wops) THEN spans
       ELSE spans \o <<[kind |-> leaf, text |-> wops[g + 1].val]>>
                \o Tokens(SubSeq(wops, g + 2, Len(wops)), leaf)

\* The tokens with one Text(" ") between every two of them.
WithSeparators(tokens) ==
    [k \in 1..(2 * Len(tokens) - 1) |->
         IF k % 2 = 1 THEN tokens[(k + 1) \div 2] ELSE Text(<<" ">>)]

\* The paragraph the claim describes for two code texts.
CodeParagraph(old_code, new_code) ==
    Paragraph(WithSeparators(Tokens(diff_sequences(split_whitespace(old_code),
                                                   split_whitespace(new_code)),
                                    "Code")))

\* Code blocks with runs of one and several changed words, on either side of
\* unchanged words, with and without a language.
CodeSamples ==
    {CodeBlock(l, c) :
         l \in {<<>>, << <<"r">> >>},
         c \in {<<>>, <<"x", " ", "y", "\n">>, <<"x", " ", "z", "\n">>,
                <<"p", " ", "q", "\n", "x", "\n">>,
                <<"y", " ", "x", " ", "w", " ", "v">>}}

CodeBlockTable ==
    \A o \in CodeSamples : \A n \in CodeSamples :
        o # n => diff_block_inline(o, n) = CodeParagraph(o.code, n.code)

\* C12: when two CodeBlocks that differ in language or code are paired, the
\* step emits one Paragraph (never a CodeBlock) that holds, with one
\* Text(" ") between consecutive items: a plain Code span for each Equal
\* word, one Strikethrough around a single Code span (the words joined by
\* spaces) for each run of removed words, and one Strong around a single
\* Code span for each run of added words.
C12_CodeBlockBecomesParagraph ==
    [][/\ CodeBlockTable
       /\ Pairing("CodeBlock") =>
              LET o == pending_removes[FirstMatch(pending_removes, CurOp.val)]
                  b == result_blocks'[Len(result_blocks')]
              IN (o.code # CurOp.val.code \/ o.language # CurOp.val.language) =>
                     /\ Len(result_blocks') = Len(result_blocks) + 1
                     /\ b.kind = "Paragraph"
                     /\ b = CodeParagraph(o.code, CurOp.val.code)]_vars

C12_Witness ==
    /\ mode = "inline"
    /\ pc = "done"
    /\ diff_ops = <<Remove(CodeRust), Add(CodePlain)>>
    /\ result_blocks =
           <<Paragraph(<<Code(<<"x">>), Text(<<" ">>),
                         Strikethrough(<<Code(<<"y">>)>>), Text(<<" ">>),
                         Strong(<<Code(<<"z">>)>>)>>)>>

StartsWith(s, prefix) ==
    Len(s) >= Len(prefix) /\ SubSeq(s, 1, Len(prefix)) = prefix

\* The lines of a rendered block: its text up to the blank line that ends it.
RenderedLines(block) ==
    LET pieces == split_lines(render_to_markdown(<<block>>))
    IN SubSeq(pieces, 1, Len(pieces) - 2)

\* Every line of the rendered quote is its inner line behind the prefix:
\* '> line' for a non-empty inner line, '>' for an empty one.
QuoteLinesPrefixed(quote) ==
    LET lines == RenderedLines(quote)
        inner == split_lines(TrimEndNewlines(render_to_markdown(quote.blocks)))
    IN /\ render_to_markdown(<<quote>>) # <<>>
       /\ Len(lines) = Len(inner)
       /\ \A k \in 1..Len(lines) :
              /\ StartsWith(lines[k], <<">">>)
              /\ inner[k] = <<>> => lines[k] = <<">">>
              /\ inner[k] # <<>> => lines[k] = <<">", " ">> \o inner[k]

\* Quotes of one and several blocks, empty, nested, and holding a list, raw
\* HTML and a hard break.
QuoteSamples ==
    {QuoteOne, QuoteTwo, BlockQuote(<<>>), BlockQuote(<<QuoteTwo, ParaRich>>),
     BlockQuote(<<ListTwo, HtmlOne>>),
     BlockQuote(<<Paragraph(<<Text(<<"a">>), HardBreak, Text(<<"b", " ", "c">>)>>),
                  ThematicBreak>>)}

QuoteTable ==
    \A o \in QuoteSamples : \A n \in QuoteSamples :
        LET b == diff_block_inline(o, n)
        IN /\ b.kind = "BlockQuote"
           /\ render_to_markdown(b.blocks)
                  = render_to_markdown(diff_blocks_inline(o.blocks, n.blocks))
           /\ QuoteLinesPrefixed(b)
           /\ QuoteLinesPrefixed(o)

----------------------------------------------------------------------------
(* Claims about wrap_block_removed and wrap_block_added, checked under Spec *)

\* t is s without its trailing newlines.
IsTrimmed(s, t) ==
    /\ Len(t) <= Len(s)
    /\ t = SubSeq(s, 1, Len(t))
    /\ \A k \in (Len(t) + 1)..Len(s) : s[k] = "\n"
    /\ t # <<>> => t[Len(t)] # "\n"

\* content is one span of the given kind around exactly the inlines given.
OneSpan(content, span, inlines) ==
    /\ Len(content) = 1
    /\ content[1].kind = span
    /\ content[1].inner = inlines

\* Blocks of every variant, with nesting two deep, an ordered list with a
\* start, a table of two columns, and code that ends in several newlines.
WrapSamples ==
    AllBlocks \cup QuoteSamples \cup CodeSamples
        \cup {CodeBlock(<<>>, <<"x", "\n", "y", "\n", "\n">>),
              CodeBlock(<< <<"r">> >>, <<"\n">>),
              List(TRUE, <<3>>, << <<ParaAB, QuoteTwo>>, <<TableOne>>, <<>> >>),
              BlockQuote(<<ListOrdered, BlockQuote(<<HeadTwo, HtmlOne>>)>>),
              Heading(6, ParaRich.content),
              Paragraph(<<Strikethrough(<<Text(<<"a">>)>>), Text(<<" ", "b">>)>>),
              BlockQuote(<<Paragraph(<<Strikethrough(<<Strong(<<Text(<<"a">>)>>)>>)>>)>>)}

\* w is what the per-variant table gives for block b, every wrapper being a
\* span of the given kind and child standing for the wrapping of a child.
WrapTable(b, w, span, child(_)) ==
    CASE b.kind = "Paragraph" ->
             w.kind = "Paragraph" /\ OneSpan(w.content, span, b.content)
      [] b.kind = "Heading" ->
             /\ w.kind = "Heading"
             /\ w.level = b.level
             /\ OneSpan(w.content, span, b.content)
      [] b.kind = "BlockQuote" ->
             /\ w.kind = "BlockQuote"
             /\ Len(w.blocks) = Len(b.blocks)
             /\ \A k \in 1..Len(b.blocks) : w.blocks[k] = child(b.blocks[k])
      [] b.kind = "List" ->
             /\ w.kind = "List"
             /\ w.ordered = b.ordered
             /\ w.start = b.start
             /\ Len(w.items) = Len(b.items)
             /\ \A k \in 1..Len(b.items) :
                    /\ Len(w.items[k]) = Len(b.items[k])
                    /\ \A l \in 1..Len(b.items[k]) :
                           w.items[k][l] = child(b.items[k][l])
      [] b.kind = "Table" ->
             /\ w.kind = "Table"
             /\ w.alignments = b.alignments
             /\ Len(w.header) = Len(b.header)
             /\ \A c \in 1..Len(b.header) : OneSpan(w.header[c], span, b.header[c])
             /\ Len(w.rows) = Len(b.rows)
             /\ \A r \in 1..Len(b.rows) :
                    /\ Len(w.rows[r]) = Len(b.rows[r])
                    /\ \A c \in 1..Len(b.rows[r]) :
                           OneSpan(w.rows[r][c], span, b.rows[r][c])
      [] b.kind = "CodeBlock" ->
             /\ w.kind = "Paragraph"
             /\ Len(w.content) = 1
             /\ w.content[1].kind = span
             /\ Len(w.content[1].inner) = 1
             /\ w.content[1].inner[1].kind = "Code"
             /\ IsTrimmed(b.code, w.content[1].inner[1].text)
      [] b.kind = "ThematicBreak" ->
             w.kind = "Paragraph" /\ OneSpan(w.content, span, <<Text(<<"-", "-", "-">>)>>)
      [] b.kind = "HtmlBlock" ->
             w.kind = "Paragraph" /\ OneSpan(w.content, span, <<Text(b.html)>>)

RemovedTable ==
    \A b \in WrapSamples :
        WrapTable(b, wrap_block_removed(b), "Strikethrough", wrap_block_removed)

\* C14: wrap_block_removed follows the per-variant table.  Paragraph and
\* Heading keep their variant and level with the whole content in one
\* Strikethrough; BlockQuote and List keep ordered flag, start, item count
\* and child count with every child wrapped recursively; Table keeps its
\* alignments and shape with every cell in its own Strikethrough; CodeBlock,
\* ThematicBreak and HtmlBlock become a Paragraph of one Strikethrough
\* around one Code span (the code without its trailing newlines, no
\* language), Text("---") and the raw HTML as Text.  Every block that
\* diff_markdown emits for a Remove op is such a wrapping.
C14_RemovedPerVariant ==
    /\ RemovedTable
    /\ (mode = "whole" /\ pc \in {"loop", "done"}) =>
           \A k \in 1..pos :
               diff_ops[k].op = "Remove" =>
                   WrapTable(diff_ops[k].val, result_blocks[k], "Strikethrough",
                             wrap_block_removed)

C14_Witness ==
    /\ mode = "whole"
    /\ pc = "done"
    /\ diff_ops = <<Remove(TableOne), Remove(CodeRust)>>
    /\ result_blocks[1].kind = "Table"
    /\ result_blocks[1].rows[1][2] = <<Strikethrough(<<Text(<<"d">>)>>)>>
    /\ result_blocks[2] = Paragraph(<<Strikethrough(<<Code(<<"x", " ", "y">>)>>)>>)

\* A wrapped inline sequence with its one wrapper turned into a Strong.
SwapSpan(content) == <<[content[1] EXCEPT !.kind = "Strong"]>>

\* w, the removed wrapping of block b, with every Strikethrough that the
\* wrapping introduced turned into a Strong; the content of b is not
\* visited, so a Strikethrough it already holds stays.
RECURSIVE SwapIntroduced(_, _)
SwapIntroduced(b, w) ==
    CASE b.kind = "BlockQuote" ->
             [w EXCEPT !.blocks =
                  [k \in 1..Len(w.blocks) |-> SwapIntroduced(b.blocks[k], w.blocks[k])]]
      [] b.kind = "List" ->
             [w EXCEPT !.items =
                  [k \in 1..Len(w.items) |->
                       [l \in 1..Len(w.items[k]) |->
                            SwapIntroduced(b.items[k][l], w.items[k][l])]]]
      [] b.kind = "Table" ->
             [w EXCEPT !.header = [c \in 1..Len(w.header) |-> SwapSpan(w.header[c])],
                       !.rows = [r \in 1..Len(w.rows) |->
                                     [c \in 1..Len(w.rows[r]) |->
                                          SwapSpan(w.rows[r][c])]]]
      [] OTHER -> [w EXCEPT !.content = SwapSpan(w.content)]

AddedTable ==
    \A b \in WrapSamples :
        /\ wrap_block_added(b) = SwapIntroduced(b, wrap_block_removed(b))
        /\ wrap_block_added(b) # wrap_block_removed(b)
               \/ (b.kind \in {"BlockQuote", "List"})
        /\ WrapTable(b, wrap_block_added(b), "Strong", wrap_block_added)

\* C15: for every block b, wrap_block_added(b) is wrap_block_removed(b) with
\* each Strikethrough that the wrapping introduced replaced by a Strong at
\* the same position, a Strikethrough already in b's content being left as
\* it is; variant, shape and all other content agree.  Every block that
\* diff_markdown emits for an Add op is such a wrapping.
C15_AddedMirrorsRemoved ==
    /\ AddedTable
    /\ (mode = "whole" /\ pc \in {"loop", "done"}) =>
           \A k \in 1..pos :
               diff_ops[k].op = "Add" =>
                   result_blocks[k]
                       = SwapIntroduced(diff_ops[k].val,
                                        wrap_block_removed(diff_ops[k].val))

C15_Witness ==
    /\ mode = "whole"
    /\ pc = "done"
    /\ diff_ops = <<Remove(ListTwo), Add(ListOrdered), Add(HtmlOne)>>
    /\ result_blocks[1].items[2] = <<Paragraph(<<Strikethrough(ParaAC.content)>>)>>
    /\ result_blocks[2] =
           List(TRUE, <<3>>, << <<Paragraph(<<Strong(ParaAB.content)>>)>> >>)
    /\ result_blocks[3] = Paragraph(<<Strong(<<Text(HtmlOne.html)>>)>>)

----------------------------------------------------------------------------
(* Termination of the paired diff, checked under SpecAll *)

Min(a, b) == IF a <= b THEN a ELSE b

SetMax(S) == CHOOSE x \in S : \A y \in S : y <= x

\* The pairs (pending block, added block) the paired diff makes over the ops.
RECURSIVE PairsFrom(_, _, _)
PairsFrom(dops, pending, acc) ==
    IF dops = <<>> THEN acc
    ELSE LET op == Head(dops)
             idx == position(pending, op.val)
         IN CASE op.op = "Equal" -> PairsFrom(Tail(dops), <<>>, acc)
              [] op.op = "Remove" ->
                     PairsFrom(Tail(dops), Append(pending, op.val), acc)
              [] op.op = "Add" /\ idx # <<>> ->
                     PairsFrom(Tail(dops), RemoveAt(pending, idx[1]),
                               acc \cup {<<pending[idx[1]], op.val>>})
              [] OTHER -> PairsFrom(Tail(dops), <<>>, acc)

\* How deep the paired diff of two block sequences nests calls of itself,
\* this call counted.
RECURSIVE RecursionDepth(_, _)
RecursionDepth(ob, nb) ==
    LET quotes == {p \in PairsFrom(diff_sequences(ob, nb), <<>>, {}) :
                       p[1].kind = "BlockQuote"}
    IN 1 + SetMax({0} \cup {RecursionDepth(p[1].blocks, p[2].blocks) : p \in quotes})

\* How deep quotes lie directly within quotes in a block sequence.
RECURSIVE QuoteDepth(_)
QuoteDepth(blocks) ==
    SetMax({0} \cup {1 + QuoteDepth(blocks[k].blocks) :
                         k \in {l \in 1..Len(blocks) : blocks[l].kind = "BlockQuote"}})

DepthBounded(ob, nb) ==
    RecursionDepth(ob, nb) <= 1 + Min(QuoteDepth(ob), QuoteDepth(nb))

QuoteThree == BlockQuote(<<BlockQuote(<<QuoteOne>>)>>)
QuoteThreeChanged == BlockQuote(<<BlockQuote(<<QuoteTwo, HeadOne>>), ParaAB>>)

DepthTable ==
    /\ \A o \in QuoteSamples \cup {QuoteThree, QuoteThreeChanged} :
           \A n \in QuoteSamples \cup {QuoteThree, QuoteThreeChanged} :
               DepthBounded(<<o, ParaAB>>, <<n>>)
    /\ RecursionDepth(<<QuoteThree>>, <<QuoteThreeChanged>>) = 4
    /\ diff_block_inline(QuoteThree, QuoteThreeChanged).kind = "BlockQuote"

----------------------------------------------------------------------------
(* Claims about diff_inlines, checked under SpecInline *)

\* The items of the output without the separators between them.
Items(res) == [k \in 1..((Len(res) + 1) \div 2) |-> res[2 * k - 1]]

\* x is a span of the given kind around one Text node that holds one or
\* more words with single spaces between them.
WordSpan(x, span) ==
    /\ x.kind = span
    /\ Len(x.inner) = 1
    /\ x.inner[1].kind = "Text"
    /\ split_whitespace(x.inner[1].text) # <<>>
    /\ x.inner[1].text = JoinSpace(split_whitespace(x.inner[1].text))

\* The words of the ops with the given tag within the g-th gap, a gap being
\* what lies between two consecutive Equal ops, before the first or after
\* the last.
GapWords(wops, g, tag) ==
    LET equals == {k \in 1..Len(wops) : wops[k].op = "Equal"}
        gapOf(k) == 1 + Cardinality({e \in equals : e < k})
    IN ValsOf([k \in 1..Len(wops) |->
                   IF gapOf(k) = g /\ wops[k].op = tag THEN wops[k]
                   ELSE [op |-> "Skip", val |-> <<>>]], {tag})

\* The spans of the given kind within the g-th gap of the output items.
GapSpans(items, g, span) ==
    LET plain == {k \in 1..Len(items) : items[k].kind = "Text"}
        gapOf(k) == 1 + Cardinality({e \in plain : e < k})
    IN {k \in 1..Len(items) : gapOf(k) = g /\ items[k].kind = span}

\* C20: in the output of diff_inlines, between two consecutive Equal word
\* tokens, before the first and after the last, there is at most one
\* Strikethrough span and at most one Strong span, the Strikethrough first
\* when both are there; each span wraps a single Text node holding all the
\* removed (added) words of that gap joined by single spaces.
C20_OneSpanPerGap ==
    ipc = "done" =>
        LET items == Items(result)
            gaps == 1..(CountOf(word_ops, "Equal") + 1)
        IN /\ Cardinality({k \in 1..Len(items) : items[k].kind = "Text"})
                  = CountOf(word_ops, "Equal")
           /\ \A k \in 1..Len(items) :
                  \/ items[k].kind = "Text"
                  \/ WordSpan(items[k], "Strikethrough")
                  \/ WordSpan(items[k], "Strong")
           /\ \A g \in gaps :
                  LET struck == GapSpans(items, g, "Strikethrough")
                      strong == GapSpans(items, g, "Strong")
                      removed == GapWords(word_ops, g, "Remove")
                      added == GapWords(word_ops, g, "Add")
                  IN /\ Cardinality(struck) = (IF removed = <<>> THEN 0 ELSE 1)
                     /\ Cardinality(strong) = (IF added = <<>> THEN 0 ELSE 1)
                     /\ \A a \in struck : \A b \in strong : a < b
                     /\ \A a \in struck :
                            split_whitespace(items[a].inner[1].text) = removed
                     /\ \A b \in strong :
                            split_whitespace(items[b].inner[1].text) = added

C20_Witness ==
    /\ ipc = "done"
    /\ \E k \in 3..(Len(result) - 4) :
           /\ result[k - 2].kind = "Text"
           /\ result[k].kind = "Strikethrough"
           /\ Len(split_whitespace(result[k].inner[1].text)) = 2
           /\ result[k + 1] = Text(<<" ">>)
           /\ result[k + 2].kind = "Strong"
           /\ result[k + 4].kind = "Text"

\* The leaves of an inline tree in document order: containers contribute
\* their children's leaves and nothing of their own.
RECURSIVE Leaves(_)
Leaves(inlines) ==
    IF inlines = <<>> THEN <<>>
    ELSE (IF Head(inlines).kind \in {"Emphasis", "Strong", "Strikethrough", "Link", "Image"}
          THEN Leaves(Head(inlines).inner)
          ELSE <<Head(inlines)>>)
         \o Leaves(Tail(inlines))

\* What one leaf contributes to the flattened text.
LeafText(x) ==
    CASE x.kind \in {"Text", "Html"} -> x.text
      [] x.kind = "Code" -> <<Backtick>> \o x.text \o <<Backtick>>
      [] x.kind \in {"SoftBreak", "HardBreak"} -> <<" ">>

FlatText(inlines) ==
    LET ls == Leaves(inlines) IN Flatten([k \in 1..Len(ls) |-> LeafText(ls[k])])

SpanWords(res, span) ==
    Flatten([k \in 1..Len(res) |->
                 IF res[k].kind = "Text" THEN split_whitespace(res[k].text)
                 ELSE IF res[k].kind = span
                      THEN split_whitespace(inline_text(res[k].inner))
                      ELSE <<>>])

\* C6: when diff_inlines returns, the plain words and the words inside
\* Strikethrough spans, in output order, are exactly the words of the
\* flattened old side, and the plain words and the words inside Strong spans
\* are exactly the words of the flattened new side.
C6_WordsPreserved ==
    ipc = "done" =>
        /\ SpanWords(result, "Strikethrough")
               = split_whitespace(inline_text(old_inlines))
        /\ SpanWords(result, "Strong")
               = split_whitespace(inline_text(new_inlines))
        /\ \A k \in 1..Len(result) :
               result[k].kind \in {"Text", "Strikethrough", "Strong"}

C6_Witness ==
    /\ ipc = "done"
    /\ \E k \in 1..Len(result) :
           /\ result[k].kind = "Strikethrough"
           /\ Len(split_whitespace(inline_text(result[k].inner))) >= 2
    /\ \E k \in 1..Len(result) :
           /\ result[k].kind = "Strong"
           /\ Len(split_whitespace(inline_text(result[k].inner))) >= 2
    /\ Cardinality({k \in 1..Len(word_ops) : word_ops[k].op = "Equal"}) >= 2

----------------------------------------------------------------------------
(* Claims about the separators of a word diff, checked under SpecAll *)

Separator == Text(<<" ">>)

\* x is a token: a plain word, or a Strikethrough or Strong span.
IsToken(x) ==
    \/ x.kind \in {"Strikethrough", "Strong"}
    \/ x.kind \in {"Text", "Code"} /\ x # Separator

\* res is tokens and separators in strict alternation, a token first and
\* last.
Alternates(res) ==
    /\ res # <<>> => (res[1] # Separator /\ res[Len(res)] # Separator)
    /\ \A k \in 1..(Len(res) - 1) :
           /\ ~(res[k] = Separator /\ res[k + 1] = Separator)
           /\ (IsToken(res[k]) /\ IsToken(res[k + 1])) => FALSE
           /\ IsToken(res[k]) => res[k + 1] = Separator
    /\ \A k \in 1..Len(res) : res[k] = Separator \/ IsToken(res[k])
    /\ LET tokens == Cardinality({k \in 1..Len(res) : IsToken(res[k])})
       IN Len(res) = (IF tokens = 0 THEN 0 ELSE 2 * tokens - 1)

\* The number of tokens the word ops call for: one per Equal op and one per
\* gap and side that has words.
TokenCount(wops) ==
    CountOf(wops, "Equal")
        + Cardinality({g \in 1..(CountOf(wops, "Equal") + 1) :
                           GapWords(wops, g, "Remove") # <<>>})
        + Cardinality({g \in 1..(CountOf(wops, "Equal") + 1) :
                           GapWords(wops, g, "Add") # <<>>})

CodeAlternationTable ==
    \A o \in CodeSamples : \A n \in CodeSamples :
        o # n =>
            LET content == diff_block_inline(o, n).content
                wops == diff_sequences(split_whitespace(o.code), split_whitespace(n.code))
            IN /\ Alternates(content)
               /\ Len(content) = (IF wops = <<>> THEN 0 ELSE 2 * TokenCount(wops) - 1)

\* C21: the inline sequence that diff_inlines and the changed-CodeBlock diff
\* produce alternates tokens and separators.  It never starts or ends with
\* Text(" "), never has two adjacent separators, and two consecutive tokens
\* (plain word, Strikethrough span, Strong span) have exactly one Text(" ")
\* between them; with k tokens it has 2k - 1 elements, and it is empty when
\* both word streams are empty.  The part built so far has the same form
\* after every word op.
C21_TokensAlternate ==
    /\ CodeAlternationTable
    /\ ipc \in {"loop", "done"} => Alternates(result)
    /\ ipc = "done" =>
           /\ Len(result) = (IF word_ops = <<>> THEN 0
                             ELSE 2 * TokenCount(word_ops) - 1)
           /\ (split_whitespace(inline_text(old_inlines)) = <<>>
                   /\ split_whitespace(inline_text(new_inlines)) = <<>>)
                  => result = <<>>
    /\ (mode = "inline" /\ last.branch = "AddPaired") =>
           LET b == result_blocks[Len(result_blocks)]
           IN b.kind \in {"Paragraph", "Heading"} => Alternates(b.content)

C21_Witness ==
    /\ ipc = "done"
    /\ Len(result) = 7
    /\ TokenCount(word_ops) = 4
    /\ result[1].kind = "Text"
    /\ result[3].kind = "Strikethrough"
    /\ result[5].kind = "Strong"
    /\ result[7].kind = "Text"
    /\ \A k \in {2, 4, 6} : result[k] = Separator

----------------------------------------------------------------------------
(* Claims about the pending-remove queue, checked under Spec *)

IsPrefix(s, t) == Len(s) <= Len(t) /\ SubSeq(t, 1, Len(s)) = s

\* An Add op is about to be paired with some pending block.
PairingAny ==
    /\ InLoop("inline")
    /\ CurOp.op = "Add"
    /\ \E k \in 1..Len(pending_removes) : same_variant(pending_removes[k], CurOp.val)

\* The queue index (from 1) of the block an Add op is paired with.
PairedIndex ==
    CHOOSE k \in 1..Len(pending_removes) :
        /\ same_variant(pending_removes[k], CurOp.val)
        /\ \A h \in 1..(k - 1) : ~same_variant(pending_removes[h], CurOp.val)

\* C22: when an Add op pairs with the pending block that has k > 0 blocks
\* queued before it, those k blocks stay at the head of the queue in their
\* order and the step emits the paired diff only; no step puts a block
\* before one already emitted, and a block leaves the queue unpaired only
\* in a flush that appends the whole queue as whole removals, so the k
\* blocks come after the paired block in the output.
C22_EarlierBlocksStayQueued ==
    [][/\ PairingAny =>
              /\ IsPrefix(SubSeq(pending_removes, 1, PairedIndex - 1), pending_removes')
              /\ Len(pending_removes') = Len(pending_removes) - 1
              /\ result_blocks'
                     = Append(result_blocks,
                              diff_block_inline(pending_removes[PairedIndex], CurOp.val))
       /\ mode = "inline" => IsPrefix(result_blocks, result_blocks')
       /\ (mode = "inline" /\ pc = "loop" /\ ~PairingAny
               /\ ~IsPrefix(pending_removes, pending_removes')) =>
              /\ pending_removes' = <<>>
              /\ IsPrefix(result_blocks \o WholeRemovals(pending_removes),
                          result_blocks')]_vars

C22_Witness ==
    /\ mode = "inline"
    /\ pc = "done"
    /\ diff_ops = <<Remove(ListTwo), Remove(ParaAB), Add(ParaAC)>>
    /\ result_blocks = <<diff_block_inline(ParaAB, ParaAC), wrap_block_removed(ListTwo)>>

\* The elements of a finite set of integers in ascending order.
RECURSIVE Ascending(_)
Ascending(S) ==
    IF S = {} THEN <<>>
    ELSE LET least == CHOOSE x \in S : \A y \in S : x <= y
         IN <<least>> \o Ascending(S \ {least})

\* The pairings made over the ops, by position: the set of <<r, a>> where
\* the Remove op at position r is paired with the Add op at position a.
\* queue holds the positions of the pending Remove ops.
RECURSIVE PairingsFrom(_, _, _, _)
PairingsFrom(dops, k, queue, acc) ==
    IF k > Len(dops) THEN acc
    ELSE LET hits == {h \in 1..Len(queue) :
                          same_variant(dops[queue[h]].val, dops[k].val)}
             first == CHOOSE h \in hits : \A g \in hits : h <= g
         IN CASE dops[k].op = "Equal" -> PairingsFrom(dops, k + 1, <<>>, acc)
              [] dops[k].op = "Remove" ->
                     PairingsFrom(dops, k + 1, Append(queue, k), acc)
              [] dops[k].op = "Add" /\ hits # {} ->
                     PairingsFrom(dops, k + 1,
                                  SubSeq(queue, 1, first - 1)
                                      \o SubSeq(queue, first + 1, Len(queue)),
                                  acc \cup {<<queue[first], k>>})
              [] OTHER -> PairingsFrom(dops, k + 1, <<>>, acc)

Pairings(dops) == PairingsFrom(dops, 1, <<>>, {})

\* Positions of the Remove ops among the first n ops that no pairing used.
UnpairedRemoves(dops, n) ==
    {k \in 1..n : dops[k].op = "Remove"
                    /\ \A p \in Pairings(SubSeq(dops, 1, n)) : p[1] # k}

\* Positions among the first n ops at which the queue is flushed: the Equal
\* ops and the Add ops that no pairing used.
FlushPoints(dops, n) ==
    {k \in 1..n : \/ dops[k].op = "Equal"
                  \/ dops[k].op = "Add"
                         /\ \A p \in Pairings(SubSeq(dops, 1, n)) : p[2] # k}

\* Positions of the unpaired Remove ops among the first n that are still
\* queued after n ops, and of those already emitted.
StillQueued(dops, n) ==
    {k \in UnpairedRemoves(dops, n) : \A f \in FlushPoints(dops, n) : f < k}

AlreadyFlushed(dops, n) == UnpairedRemoves(dops, n) \ StillQueued(dops, n)

ValsAt(dops, positions) == [k \in 1..Len(positions) |-> dops[positions[k]].val]

\* The blocks of out that are whole removals of one of the given blocks.
RECURSIVE WholeRemovalsIn(_, _)
WholeRemovalsIn(out, blocks) ==
    IF out = <<>> THEN <<>>
    ELSE (IF \E k \in 1..Len(blocks) : Head(out) = wrap_block_removed(blocks[k])
          THEN <<Head(out)>> ELSE <<>>)
         \o WholeRemovalsIn(Tail(out), blocks)

\* C23: the pending-remove queue of diff_markdown_inline holds, at every
\* point, the removed blocks not yet paired or flushed, in the order in
\* which they occur in old; and the blocks emitted as whole removals are in
\* the output in the same relative order as in old, whatever pairings
\* happened in between.
C23_QueueKeepsOldOrder ==
    (mode = "inline" /\ pc \in {"loop", "done"}) =>
        LET n == IF pc = "done" THEN Len(diff_ops) ELSE pos
            removed == ValsOf(diff_ops, {"Remove"})
            queued == ValsAt(diff_ops, Ascending(StillQueued(diff_ops, n)))
            flushed == ValsAt(diff_ops, Ascending(AlreadyFlushed(diff_ops, n)))
        IN /\ pending_removes = (IF pc = "done" THEN <<>> ELSE queued)
           /\ IsSubseq(pending_removes, old_blocks)
           /\ WholeRemovalsIn(result_blocks, removed)
                  = WholeRemovals(IF pc = "done"
                                  THEN ValsAt(diff_ops,
                                              Ascending(UnpairedRemoves(diff_ops, n)))
                                  ELSE flushed)
           /\ IsSubseq(IF pc = "done"
                       THEN ValsAt(diff_ops, Ascending(UnpairedRemoves(diff_ops, n)))
                       ELSE flushed \o pending_removes,
                       old_blocks)

C23_Witness ==
    /\ mode = "inline"
    /\ pc = "done"
    /\ OpKinds(diff_ops) = <<"Remove", "Remove", "Remove", "Add">>
    /\ Pairings(diff_ops) = {<<2, 4>>}
    /\ diff_ops[1].val # diff_ops[3].val
    /\ result_blocks = <<diff_block_inline(diff_ops[2].val, diff_ops[4].val),
                         wrap_block_removed(diff_ops[1].val),
                         wrap_block_removed(diff_ops[3].val)>>

(* Claims about CompareHandler::parse_sections, checked under SpecSections *)

\* Positions of the lines that start a section.
SeparatorLines(ls) ==
    {k \in 1..Len(ls) : StartsWith(ls[k], <<"/", "/", "/", " ">>)}

\* What follows the four characters of "/// " on a separator line.
Remainder(line) == SubSeq(line, 5, Len(line))

\* C24: parse_sections returns exactly one section per line that starts
\* with "/// ", in line order, each with that line's trimmed remainder as
\* its language; the lines before the first such line belong to no section
\* (dropping them changes nothing), and the result is empty when no line
\* starts with "/// ".
C24_OneSectionPerSeparator ==
    spc = "done" =>
        LET ls == str_lines(input_code)
            seps == Ascending(SeparatorLines(ls))
        IN /\ sections = parse_sections(input_code)
           /\ Len(sections) = Len(seps)
           /\ \A n \in 1..Len(seps) :
                  sections[n].language = trim(Remainder(ls[seps[n]]))
           /\ seps = <<>> => sections = <<>>
           /\ seps # <<>> =>
                  sections = parse_sections(
                                 JoinNewline(SubSeq(ls, seps[1], Len(ls))))

C24_Witness ==
    /\ spc = "done"
    /\ Len(code_lines) = 3
    /\ strip_prefix(code_lines[1]) = <<>>
    /\ code_lines[1] # <<>>
    /\ strip_prefix(code_lines[2]) = << <<" ", "y", " ">> >>
    /\ strip_prefix(code_lines[3]) = << <<"x">> >>
    /\ Len(sections) = 2
    /\ sections[1].language = <<"y">>
    /\ sections[2].language = <<"x">>


\* The lines strictly between the n-th separator and the next one, or the
\* end of the content.
LinesOfSection(ls, seps, n) ==
    SubSeq(ls, seps[n] + 1,
           IF n < Len(seps) THEN seps[n + 1] - 1 ELSE Len(ls))

\* A sequence of lines without the empty lines at its start.
RECURSIVE DropLeadingEmpty(_)
DropLeadingEmpty(ls) ==
    IF ls # <<>> /\ Head(ls) = <<>> THEN DropLeadingEmpty(Tail(ls)) ELSE ls

\* C25: the code of each section is all the lines strictly between its
\* "/// language" line and the next separator or the end of the content, in
\* order, joined by newlines, with only trailing whitespace removed, the
\* empty lines at the start of the section included.
C25_CodeIsLinesBetween ==
    spc = "done" =>
        LET ls == str_lines(input_code)
            seps == Ascending(SeparatorLines(ls))
        IN /\ Len(sections) = Len(seps)
           /\ \A n \in 1..Len(seps) :
                  sections[n].code
                      = trim_end(JoinNewline(LinesOfSection(ls, seps, n)))

\* What parse_sections returns instead: the empty lines at the start of a
\* section are not part of its code.
C25_LeadingEmptyLinesDropped ==
    spc = "done" =>
        LET ls == str_lines(input_code)
            seps == Ascending(SeparatorLines(ls))
        IN /\ Len(sections) = Len(seps)
           /\ \A n \in 1..Len(seps) :
                  sections[n].code
                      = trim_end(JoinNewline(
                            DropLeadingEmpty(LinesOfSection(ls, seps, n))))

\* "/// x", an empty line, "a": the section's code is "a", not "\na".
C25_Witness ==
    /\ spc = "done"
    /\ input_code = <<"/", "/", "/", " ", "x", "\n", "\n", "a">>
    /\ sections = <<CompareSection(<<"x">>, <<"a">>)>>


(* Claims about the accounting of diff_markdown_inline, checked under Spec *)

\* What the op at position k contributes to the output, given the pairings:
\* one block, or nothing for a Remove op that a pairing consumed.
Contribution(dops, pairs, k) ==
    CASE dops[k].op = "Equal" -> <<dops[k].val>>
      [] dops[k].op = "Remove" ->
             IF \E p \in pairs : p[1] = k THEN <<>>
             ELSE <<wrap_block_removed(dops[k].val)>>
      [] dops[k].op = "Add" ->
             IF \E p \in pairs : p[2] = k
             THEN LET p == CHOOSE q \in pairs : q[2] = k
                  IN <<diff_block_inline(dops[p[1]].val, dops[k].val)>>
             ELSE <<wrap_block_added(dops[k].val)>>

Contributions(dops) ==
    Flatten([k \in 1..Len(dops) |-> Contribution(dops, Pairings(dops), k)])

Occurrences(s, x) == Cardinality({k \in 1..Len(s) : s[k] = x})

SameBlocks(s, t) ==
    /\ Len(s) = Len(t)
    /\ \A k \in 1..Len(s) : Occurrences(s, s[k]) = Occurrences(t, s[k])

\* C26: diff_markdown_inline accounts for every aligned block exactly once:
\* each Equal op and each Add op yields exactly one output block, each
\* Remove op is either consumed by exactly one pairing or emitted exactly
\* once as a whole removal; so with p pairings the output has
\* |new| + (number of Remove ops) - p blocks.
C26_EveryOpAccountedOnce ==
    (mode = "inline" /\ pc \in {"loop", "done"}) =>
        LET seen == SubSeq(diff_ops, 1, pos)
            pairs == Pairings(seen)
        IN /\ \A p \in pairs :
                  /\ p[1] < p[2]
                  /\ seen[p[1]].op = "Remove"
                  /\ seen[p[2]].op = "Add"
                  /\ \A q \in pairs : (p[1] = q[1]) <=> (p[2] = q[2])
           /\ SameBlocks(result_blocks \o WholeRemovals(pending_removes),
                         Contributions(seen))
           /\ Len(result_blocks) + Len(pending_removes)
                  = pos - Cardinality(pairs)
           /\ pc = "done" =>
                  /\ pos = Len(diff_ops)
                  /\ pending_removes = <<>>
                  /\ Len(result_blocks)
                         = Len(new_blocks) + CountOf(diff_ops, "Remove")
                               - Cardinality(pairs)

C26_Witness ==
    /\ mode = "inline"
    /\ pc = "done"
    /\ OpKinds(diff_ops) = <<"Remove", "Remove", "Add", "Equal">>
    /\ Cardinality(Pairings(diff_ops)) = 1
    /\ Len(new_blocks) = 2
    /\ Len(result_blocks) = 3


\* Positions of the Remove ops since the latest Equal op among the ops.
SinceLastEqual(dops) ==
    {k \in 1..Len(dops) : /\ dops[k].op = "Remove"
                          /\ \A m \in k..Len(dops) : dops[m].op # "Equal"}

\* C27: the pending-remove queue is empty immediately after processing any
\* Equal op and any unmatched Add op; consequently a removed block is never
\* paired with an added block when an Equal op or an unmatched Add op lies
\* between them in the op list, even if the two have the same shape.
C27_FlushesSeparatePairings ==
    (mode = "inline" /\ pc = "loop" /\ pos > 0) =>
        LET seen == SubSeq(diff_ops, 1, pos)
            pairs == Pairings(seen)
        IN /\ last.branch \in {"Equal", "AddUnpaired"} => pending_removes = <<>>
           /\ diff_ops[pos].op = "Equal" => last.branch = "Equal"
           /\ last.branch = "AddUnpaired" <=>
                  /\ diff_ops[pos].op = "Add"
                  /\ \A p \in pairs : p[2] # pos
           /\ Len(pending_removes) <= Cardinality(SinceLastEqual(seen))
           /\ last.branch = "AddPaired" =>
                  \E k \in SinceLastEqual(seen) :
                      /\ result_blocks[Len(result_blocks)]
                             = diff_block_inline(diff_ops[k].val, diff_ops[pos].val)
                      /\ \A m \in (k + 1)..(pos - 1) :
                             /\ diff_ops[m].op # "Equal"
                             /\ diff_ops[m].op = "Add" =>
                                    \E p \in pairs : p[2] = m

\* A Paragraph is removed, a block is kept, a Paragraph is added: the two
\* Paragraphs are not paired.
C27_Witness ==
    /\ mode = "inline"
    /\ pc = "done"
    /\ OpKinds(diff_ops) = <<"Remove", "Equal", "Add">>
    /\ same_variant(diff_ops[1].val, diff_ops[3].val)
    /\ result_blocks = <<wrap_block_removed(diff_ops[1].val), diff_ops[2].val,
                         wrap_block_added(diff_ops[3].val)>>


(* Claims about the pairs handed to diff_block_inline, checked under SpecAll *)

\* No Remove op and Add op of one maximal run of non-Equal ops carry equal
\* elements.
NoSharedElementInRun(o) ==
    \A k \in 1..Len(o) : \A m \in k..Len(o) :
        (/\ {o[k].op, o[m].op} = {"Remove", "Add"}
         /\ \A t \in k..m : o[t].op # "Equal")
            => o[k].val # o[m].val

\* The pairing that consumed the Add op at the given position.
PairingOf(dops, at) == CHOOSE p \in Pairings(dops) : p[2] = at

\* C28: within any maximal run of non-Equal ops returned by diff_sequences
\* no Remove element is equal to any Add element of the same run;
\* consequently every pair handed to diff_block_inline by
\* diff_markdown_inline consists of two unequal blocks, and the branch that
\* passes an identical CodeBlock pair through unchanged is never reached
\* from diff_markdown_inline.
C28_PairedBlocksDiffer ==
    /\ phase = "done" => NoSharedElementInRun(ops)
    /\ pc \in {"loop", "done"} => NoSharedElementInRun(diff_ops)
    /\ (InLoop("inline") /\ CurOp.op = "Add") =>
           \A k \in 1..Len(pending_removes) : pending_removes[k] # CurOp.val
    /\ (mode = "inline" /\ pc = "loop" /\ pos > 0
            /\ last.branch = "AddPaired") =>
           LET p == PairingOf(SubSeq(diff_ops, 1, pos), pos)
               o == diff_ops[p[1]].val
               n == diff_ops[pos].val
               out == result_blocks[Len(result_blocks)]
           IN /\ o # n
              /\ out = diff_block_inline(o, n)
              /\ (o.kind = "CodeBlock" /\ n.kind = "CodeBlock") =>
                     /\ ~(o.code = n.code /\ o.language = n.language)
                     /\ out.kind = "Paragraph"

C28_Witness ==
    /\ mode = "inline"
    /\ pc = "loop"
    /\ pos > 1
    /\ last.branch = "AddPaired"
    /\ diff_ops[pos - 1] = Remove(CodeRust)
    /\ diff_ops[pos] = Add(CodePlain)
    /\ result_blocks[Len(result_blocks)].kind = "Paragraph"


\* The variants diff_block_inline has an arm for.
ArmKinds == {"Paragraph", "Heading", "BlockQuote", "CodeBlock"}

\* The words of the new side in the inline sequence of a paired diff: those
\* of the plain tokens and of the Strong spans, in order.
NewSideWords(res) ==
    Flatten([k \in 1..Len(res) |->
                 CASE res[k].kind \in {"Text", "Code"} ->
                          split_whitespace(res[k].text)
                   [] res[k].kind = "Strong" ->
                          split_whitespace(res[k].inner[1].text)
                   [] OTHER -> <<>>])

PlainOrSpan(x) ==
    \/ x.kind = "Text"
    \/ /\ x.kind \in {"Strikethrough", "Strong"}
       /\ Len(x.inner) = 1
       /\ x.inner[1].kind = "Text"

TextOf(res) == Flatten([k \in 1..Len(res) |-> res[k].text])

\* What a paired Paragraph or Heading diff keeps of its two sides.
OnlyTextAndSpans(o, n, res) ==
    LET old_words == split_whitespace(inline_text(o))
        new_words == split_whitespace(inline_text(n))
    IN /\ \A k \in 1..Len(res) : PlainOrSpan(res[k])
       /\ old_words = new_words =>
              /\ \A k \in 1..Len(res) : res[k].kind = "Text"
              /\ TextOf(res) = JoinSpace(new_words)

\* C30: the inline sequence of a paired Paragraph or Heading diff has only
\* three node shapes at top level: Text, Strikethrough around one Text and
\* Strong around one Text; no Emphasis, Link, Image, Code, Html or break
\* node of either side survives.  When the two sides have equal flattened
\* word streams the result has no Strikethrough and no Strong span and is
\* the word stream with single spaces between the words.
C30_OnlyTextAndSpans ==
    /\ ipc = "done" => OnlyTextAndSpans(old_inlines, new_inlines, result)
    /\ (mode = "inline" /\ pc = "loop" /\ pos > 0 /\ last.branch = "AddPaired"
            /\ diff_ops[pos].val.kind \in {"Paragraph", "Heading"}) =>
           LET n == diff_ops[pos].val
               out == result_blocks[Len(result_blocks)]
           IN /\ out.kind = n.kind
              /\ \E k \in SinceLastEqual(SubSeq(diff_ops, 1, pos)) :
                     /\ diff_ops[k].val.kind = n.kind
                     /\ out = diff_block_inline(diff_ops[k].val, n)
                     /\ OnlyTextAndSpans(diff_ops[k].val.content, n.content,
                                         out.content)

\* An emphasised "a b" against the same after a hard break: same words,
\* and the result is the three Text nodes "a", " ", "b".
C30_Witness ==
    /\ ipc = "done"
    /\ old_inlines = <<Emphasis(<<Text(<<"a", " ", "b">>)>>)>>
    /\ new_inlines = <<HardBreak, Emphasis(<<Text(<<"a", " ", "b">>)>>)>>
    /\ result = <<Text(<<"a">>), Text(<<" ">>), Text(<<"b">>)>>

====
